---- MODULE Spec2Model ----
(***************************************************************************)
(* A model of mmaictl: the cluster resolver (utils.get_cluster_uid), the   *)
(* field projector (utils.filter_json), the flattener (utils.flatten_json) *)
(* and the per-resource aggregating commands (commands/*.py).              *)
(*                                                                         *)
(* Python strings are sequences of one-character strings, so that          *)
(* splitting, joining and prefixing are computed as the code computes      *)
(* them.  Python values are tagged records:                                *)
(*   None            [py |-> "None"]                                       *)
(*   str             [py |-> "str",  s |-> <<chars>>]                      *)
(*   list            [py |-> "list", elems |-> <<values>>]                 *)
(*   dict            [py |-> "dict", items |-> << <<key, value>>, ... >>]  *)
(* a dict keeps its insertion order and its keys are distinct strings.     *)
(***************************************************************************)
EXTENDS Naturals, Sequences, FiniteSets, TLC

VARIABLES
    call,       \* pure-function specifications: the function called and its arguments
    ret,        \* pure-function specifications: what the call returned or raised
    api,        \* the control plane: its clusters, their collections, the failing endpoint
    args,       \* the parsed command line of the invocation
    pc,         \* where the command handler is
    clusters,   \* the handler's local `clusters`
    k,          \* the handler's loop position in `clusters` (1-based)
    acc,        \* the handler's accumulator (all_departments, all_nodes, ...)
    origin,     \* history: for each element of acc, the uid and index it was fetched under
    requests,   \* history: the requests issued, in order
    out,        \* what the handler printed or returned
    log,        \* what the handler logged
    status      \* the exit status of the process, once main has ended

vars == <<call, ret, api, args, pc, clusters, k, acc, origin, requests, out, log, status>>
pipelineVars == <<api, args, pc, clusters, k, acc, origin, requests, out, log, status>>

(***************************************************************************)
(* Bounds of the model.                                                    *)
(***************************************************************************)
MaxClusters == 2    \* clusters the control plane lists
MaxItems == 2       \* resources in one cluster's collection
MaxKeys == 2        \* top-level keys of a Record given to flatten_json
MaxFilters == 2     \* dot-paths in one --filter

(***************************************************************************)
(* Python values.                                                          *)
(***************************************************************************)
None == [py |-> "None"]
Bool(b) == [py |-> "bool", b |-> b]
Str(s) == [py |-> "str", s |-> s]
List(elems) == [py |-> "list", elems |-> elems]
Dict(items) == [py |-> "dict", items |-> items]

\* bool(v) for the values the code tests: None, '' , [] and {} are falsy
Truthy(v) ==
    CASE v.py = "None" -> FALSE
      [] v.py = "bool" -> v.b
      [] v.py = "str"  -> v.s # <<>>
      [] v.py = "list" -> v.elems # <<>>
      [] v.py = "dict" -> v.items # <<>>

Raise(exc, arg) == [raised |-> TRUE, exc |-> exc, arg |-> arg]
Return(v) == [raised |-> FALSE, value |-> v]

Range(s) == {s[i] : i \in 1..Len(s)}
SeqsUpTo(S, n) == UNION {[1..m -> S] : m \in 0..n}

\* str.join
RECURSIVE join(_, _)
join(sep, strs) ==
    IF strs = <<>> THEN <<>>
    ELSE IF Len(strs) = 1 THEN strs[1]
    ELSE strs[1] \o sep \o join(sep, Tail(strs))

\* str.split(sep) for a non-empty separator
RECURSIVE split(_, _)
split(s, sep) ==
    LET hits == {i \in 1..(Len(s) + 1 - Len(sep)) : SubSeq(s, i, i + Len(sep) - 1) = sep}
    IN  IF hits = {} \/ Len(s) < Len(sep) THEN <<s>>
        ELSE LET i == CHOOSE h \in hits : \A g \in hits : h <= g
             IN  <<SubSeq(s, 1, i - 1)>> \o split(SubSeq(s, i + Len(sep), Len(s)), sep)

StartsWith(s, p) == Len(p) <= Len(s) /\ SubSeq(s, 1, Len(p)) = p

\* str(i) of a natural number
Digits == <<"0", "1", "2", "3", "4", "5", "6", "7", "8", "9">>
RECURSIVE str_int(_)
str_int(i) == IF i < 10 THEN <<Digits[i + 1]>> ELSE str_int(i \div 10) \o <<Digits[(i % 10) + 1]>>

(***************************************************************************)
(* utils.get_cluster_uid, on the list `client.get("clusters")` returned.   *)
(***************************************************************************)
\* the loop of lines 61-63: the index of the first cluster matching by name or uid, 0 if none
RECURSIVE first_match_from(_, _, _)
first_match_from(cl, cluster_identifier, i) ==
    IF i > Len(cl) THEN 0
    ELSE IF cl[i].name = cluster_identifier \/ cl[i].uid = cluster_identifier THEN i
    ELSE first_match_from(cl, cluster_identifier, i + 1)

first_match_last(cl, cluster_identifier) ==
    LET M == {i \in 1..Len(cl) : cl[i].name = cluster_identifier \/ cl[i].uid = cluster_identifier}
    IN  IF M = {} THEN 0 ELSE CHOOSE i \in M : \A j \in M : j <= i

first_match(cl, cluster_identifier) == first_match_from(cl, cluster_identifier, 1)

available_clusters_uids(cl) == [i \in 1..Len(cl) |-> cl[i].uid]

available_clusters(cl) == [i \in 1..Len(cl) |-> cl[i].name]

\* `not clusters` (line 56)
no_clusters_never(cl) == FALSE

no_clusters(cl) == cl = <<>>

get_cluster_uid_or_first(cl, cluster_identifier) ==
    IF cl = <<>> THEN Raise("No clusters found.", <<>>)
    ELSE IF Truthy(cluster_identifier) THEN
        LET i == first_match(cl, cluster_identifier.s)
        IN  IF i # 0 THEN Return(cl[i].uid) ELSE Return(cl[1].uid)
    ELSE Return(cl[1].uid)

get_cluster_uid(cl, cluster_identifier) ==
    IF no_clusters(cl) THEN Raise("No clusters found.", <<>>)
    ELSE IF Truthy(cluster_identifier) THEN
        LET i == first_match(cl, cluster_identifier.s)
        IN  IF i # 0 THEN Return(cl[i].uid)
            ELSE Raise("Cluster '{cluster_identifier}' not found.", cluster_identifier.s)
    ELSE IF Len(cl) = 1 THEN Return(cl[1].uid)
    ELSE Raise("Multiple clusters found. Specify a cluster with --cluster. Available clusters: {', '.join(available_clusters)}",
               join(<<",", " ">>, available_clusters(cl)))

(***************************************************************************)
(* The pipeline is idle in the pure-function specifications.               *)
(***************************************************************************)
Running == [exited |-> FALSE]
Exited(code) == [exited |-> TRUE, code |-> code]

Idle ==
    /\ status = Running
    /\ api = [clusters |-> <<>>]
    /\ args = [cmd |-> "none"]
    /\ pc = "idle"
    /\ clusters = <<>>
    /\ k = 0
    /\ acc = <<>>
    /\ origin = <<>>
    /\ requests = <<>>
    /\ out = <<>>
    /\ log = <<>>

NotCalled == [raised |-> FALSE, pending |-> TRUE]

(***************************************************************************)
(* SpecResolver: get_cluster_uid on every cluster list and identifier.     *)
(***************************************************************************)
ResolverIds == {<<"a">>, <<"b">>, <<"u">>}
ClusterRefs == [name : ResolverIds, uid : ResolverIds]
ResolverIdentifiers == {None, Str(<<>>), Str(<<"z", "z">>)} \cup {Str(s) : s \in ResolverIds}

InitResolver ==
    /\ call \in [fn : {"get_cluster_uid"},
                 clusters : SeqsUpTo(ClusterRefs, MaxClusters),
                 cluster_identifier : ResolverIdentifiers]
    /\ ret = NotCalled
    /\ Idle

CallGetClusterUid ==
    /\ call.fn = "get_cluster_uid"
    /\ ret = NotCalled
    /\ ret' = get_cluster_uid(call.clusters, call.cluster_identifier)
    /\ UNCHANGED <<call, pipelineVars>>

NextResolver == CallGetClusterUid

SpecResolver == InitResolver /\ [][NextResolver]_vars

Resolved == call.fn = "get_cluster_uid" /\ ret # NotCalled

Matches(c, s) == c.name = s \/ c.uid = s

\* the first cluster, in list order, that matches s; defined when one matches
FirstMatching(cl, s) ==
    cl[CHOOSE i \in 1..Len(cl) : Matches(cl[i], s) /\ \A j \in 1..(i - 1) : ~Matches(cl[j], s)]

NotFoundErrors == {"No clusters found.", "Cluster '{cluster_identifier}' not found."}

ResolverContract(id) ==
    LET cl == call.clusters
    IN  /\ (\E i \in 1..Len(cl) : Matches(cl[i], id.s))
            => ret = Return(FirstMatching(cl, id.s).uid)
        /\ (~\E i \in 1..Len(cl) : Matches(cl[i], id.s))
            => ret.raised /\ ret.exc \in NotFoundErrors
        /\ ~ret.raised => \E i \in 1..Len(cl) : ret.value = cl[i].uid

\* C1 (as stated): for every cluster list and every given identifier (any string, the
\* empty one included), get_cluster_uid returns the uid of the first cluster whose name
\* or uid equals the identifier, and fails with a not-found error when none matches.
C1_EveryGivenIdentifier ==
    (Resolved /\ call.cluster_identifier.py = "str") => ResolverContract(call.cluster_identifier)

\* C1 (amended): for every cluster list and every non-empty identifier, get_cluster_uid
\* returns the uid of the first cluster in list order whose name or uid equals the
\* identifier, fails with a not-found error when none matches, and whatever it returns is
\* the uid of a listed cluster; an empty identifier is handled as an omitted one.
C1_NonEmptyIdentifier ==
    (Resolved /\ Truthy(call.cluster_identifier)) => ResolverContract(call.cluster_identifier)

\* C1 witness: the identifier matches the second cluster only, by uid, and its uid is returned
C1_Witness ==
    /\ Resolved
    /\ Truthy(call.cluster_identifier)
    /\ Len(call.clusters) = 2
    /\ ~Matches(call.clusters[1], call.cluster_identifier.s)
    /\ call.clusters[2].uid = call.cluster_identifier.s
    /\ call.clusters[2].name # call.cluster_identifier.s
    /\ ret = Return(call.clusters[2].uid)

\* C2: with the identifier omitted, exactly one cluster gives that cluster's uid, and
\* zero clusters give the "no clusters" not-found error and no uid.
C2_OmittedFewerThanTwo ==
    (Resolved /\ ~Truthy(call.cluster_identifier)) =>
        /\ Len(call.clusters) = 1 => ret = Return(call.clusters[1].uid)
        /\ Len(call.clusters) = 0 => ret.raised /\ ret.exc = "No clusters found."

\* C2 witness: the identifier is None, one cluster is listed and its uid is returned
C2_Witness ==
    /\ Resolved
    /\ call.cluster_identifier = None
    /\ Len(call.clusters) = 1
    /\ ret = Return(call.clusters[1].uid)

\* C3: with the identifier omitted and two or more clusters, get_cluster_uid returns no
\* uid: it raises the ambiguous-selection error, whose list of available clusters is the
\* clusters' names in cluster-list order.
C3_OmittedAmbiguous ==
    (Resolved /\ ~Truthy(call.cluster_identifier) /\ Len(call.clusters) >= 2) =>
        /\ ret.raised
        /\ ret.exc = "Multiple clusters found. Specify a cluster with --cluster. Available clusters: {', '.join(available_clusters)}"
        /\ split(ret.arg, <<",", " ">>) = [i \in 1..Len(call.clusters) |-> call.clusters[i].name]

\* C3 witness: None, two clusters with different names, the error lists both in order
C3_Witness ==
    /\ Resolved
    /\ call.cluster_identifier = None
    /\ Len(call.clusters) = 2
    /\ call.clusters[1].name # call.clusters[2].name
    /\ ret.raised
    /\ ret.arg = call.clusters[1].name \o <<",", " ">> \o call.clusters[2].name

(***************************************************************************)
(* utils.flatten_json.                                                     *)
(***************************************************************************)
\* d[key] = value on an insertion-ordered dict
dict_set(d, key, value) ==
    IF \E i \in 1..Len(d) : d[i][1] = key
    THEN [i \in 1..Len(d) |-> IF d[i][1] = key THEN <<key, value>> ELSE d[i]]
    ELSE Append(d, <<key, value>>)

RECURSIVE dict_from(_, _)
dict_from(pairs, d) ==
    IF pairs = <<>> THEN d
    ELSE dict_from(Tail(pairs), dict_set(d, pairs[1][1], pairs[1][2]))

\* dict(items) for a list of (key, value) pairs: a later pair overwrites an earlier one
dict(pairs) == dict_from(pairs, <<>>)

Keys(d) == [i \in 1..Len(d.items) |-> d.items[i][1]]
HasKey(d, key) == \E i \in 1..Len(d.items) : d.items[i][1] = key
Get(d, key) == d.items[CHOOSE i \in 1..Len(d.items) : d.items[i][1] = key][2]

\* line 36: f"{parent_key}{sep}{key}" if parent_key else key
new_key(parent_key, sep, key) ==
    IF parent_key # <<>> THEN parent_key \o sep \o key ELSE key

RECURSIVE flatten_json(_, _, _)
RECURSIVE flatten_items(_, _, _)
\* the `items` list built by the loop of lines 35-40
flatten_items(its, parent_key, sep) ==
    IF its = <<>> THEN <<>>
    ELSE LET key == its[1][1]
             value == its[1][2]
             nk == new_key(parent_key, sep, key)
         IN  (IF value.py = "dict"
              THEN flatten_json(value, nk, sep).items
              ELSE << <<nk, value>> >>)
             \o flatten_items(Tail(its), parent_key, sep)

flatten_json(nested_json, parent_key, sep) ==
    Dict(dict(flatten_items(nested_json.items, parent_key, sep)))

Dot == <<".">>

(***************************************************************************)
(* utils.filter_json.                                                      *)
(***************************************************************************)
RECURSIVE extract_keys(_, _)
\* the loop of lines 88-93 over the remaining keys
extract_keys(obj, keys) ==
    IF keys = <<>> THEN obj
    ELSE IF obj.py = "dict" /\ HasKey(obj, keys[1])
         THEN extract_keys(Get(obj, keys[1]), Tail(keys))
         ELSE None

extract_field(obj, field) == extract_keys(obj, split(field, Dot))

RECURSIVE project_present_only(_, _)
project_present_only(item, filters) ==
    IF filters = <<>> THEN <<>>
    ELSE (IF extract_field(item, filters[1]) = None THEN <<>>
          ELSE << <<filters[1], extract_field(item, filters[1])>> >>)
         \o project_present_only(item, Tail(filters))

\* {field: extract_field(item, field) for field in filters}
project(item, filters) ==
    dict([i \in 1..Len(filters) |-> <<filters[i], extract_field(item, filters[i])>>])

filter_json(data, filters) ==
    IF data.py = "list" THEN List([i \in 1..Len(data.elems) |-> Dict(project(data.elems[i], filters))])
    ELSE IF data.py = "dict" THEN Dict(project(data, filters))
    ELSE data

(***************************************************************************)
(* SpecFlatten: flatten_json on nested Records and prefixes.               *)
(***************************************************************************)
DistinctKeySeqs(K, n) ==
    {ks \in SeqsUpTo(K, n) : \A i, j \in 1..Len(ks) : i # j => ks[i] # ks[j]}

\* the dicts of at most n keys of K, in every insertion order, with values of V
DictsOver(K, V, n) ==
    UNION {{Dict([i \in 1..Len(ks) |-> <<ks[i], vs[i]>>]) : vs \in [1..Len(ks) -> V]}
           : ks \in DistinctKeySeqs(K, n)}

FlattenLeaves == {Str(<<"x">>), Str(<<"y">>), List(<<Str(<<"x">>)>>)}
FlattenInner ==
    DictsOver({<<>>, <<"a">>, <<"b">>}, FlattenLeaves, 1)
        \cup {Dict(<< <<<<"b">>, Dict(<< <<<<"a">>, Str(<<"y">>)>> >>)>> >>)}
FlattenTopKeys == {<<>>, <<"a">>, <<"b">>, <<"a", ".", "b">>}
FlattenRecords(n) == DictsOver(FlattenTopKeys, FlattenLeaves \cup FlattenInner, n)
FlattenPrefixes == {<<>>, <<"p">>, <<"p", ".", "q">>}

InitFlatten ==
    /\ call \in [fn : {"flatten_json"}, nested_json : FlattenRecords(MaxKeys), parent_key : FlattenPrefixes]
    /\ ret = NotCalled
    /\ Idle

CallFlattenJson ==
    /\ call.fn = "flatten_json"
    /\ ret = NotCalled
    /\ ret' = Return(flatten_json(call.nested_json, call.parent_key, Dot))
    /\ UNCHANGED <<call, pipelineVars>>

NextFlatten == CallFlattenJson

SpecFlatten == InitFlatten /\ [][NextFlatten]_vars

Flattened == call.fn = "flatten_json" /\ ret # NotCalled

\* the leaves of a Record: <<path of keys from the top, value>> for every value that is
\* not a mapping
RECURSIVE Leaves(_)
Leaves(d) ==
    UNION {LET key == d.items[i][1]
               value == d.items[i][2]
           IN  IF value.py = "dict"
               THEN {<<(<<key>> \o l[1]), l[2]>> : l \in Leaves(value)}
               ELSE {<< <<key>>, value>>}
           : i \in 1..Len(d.items)}

\* parent path + "." + child key down the path, under the prefix when there is one
QualifiedKey(prefix, path) ==
    IF prefix # <<>> THEN prefix \o Dot \o join(Dot, path) ELSE join(Dot, path)

\* C8: flatten_json expands every mapping into keys parent path + "." + child key and
\* stores every other value (sequences included) unchanged as a leaf; with an empty
\* prefix the keys carry no prefix segment, with a prefix p every key starts with p + ".".
C8_RecursionRule ==
    Flattened =>
        LET r == call.nested_json
            p == call.parent_key
            f == ret.value
        IN  /\ Range(Keys(f)) = {QualifiedKey(p, l[1]) : l \in Leaves(r)}
            /\ \A i \in 1..Len(f.items) :
                   \E l \in Leaves(r) :
                       QualifiedKey(p, l[1]) = f.items[i][1] /\ l[2] = f.items[i][2]
            /\ p # <<>> => \A i \in 1..Len(f.items) : StartsWith(f.items[i][1], p \o Dot)

IsScalar(v) == v.py \in {"str", "None"}
ScalarLeaves(d) == {l \in Leaves(d) : IsScalar(l[2])}

\* re-nesting: each flat key split on "." is the path of its value in the rebuilt tree
Renested(f) == {<<split(f.items[i][1], Dot), f.items[i][2]>> : i \in 1..Len(f.items)}

PrefixPath(p) == IF p = <<>> THEN <<>> ELSE split(p, Dot)

\* C9: for any Record r and prefix p, flattening r and re-nesting the result by splitting
\* each key on "." gives back exactly r's scalar leaves, each at its own path (under the
\* prefix's path): none lost, merged or moved.
C9_RoundTrip ==
    Flattened =>
        {l \in Renested(ret.value) : IsScalar(l[2])}
            = {<<PrefixPath(call.parent_key) \o l[1], l[2]>> : l \in ScalarLeaves(call.nested_json)}

(***************************************************************************)
(* SpecFilter: filter_json on one Record or a list of Records.             *)
(***************************************************************************)
X == Str(<<"x">>)
Y == Str(<<"y">>)
FilterRecords ==
    { Dict(<<>>),
      Dict(<< <<<<"a">>, X>> >>),
      Dict(<< <<<<"a">>, Dict(<< <<<<"b">>, Y>> >>)>> >>),
      Dict(<< <<<<"b">>, Y>>, <<<<"a">>, Dict(<< <<<<"b">>, Dict(<< <<<<"a">>, X>> >>)>> >>)>> >>),
      Dict(<< <<<<"a", ".", "b">>, X>>, <<<<"a">>, Dict(<< <<<<"b">>, Y>> >>)>> >>),
      Dict(<< <<<<"b">>, None>>, <<<<>>, X>> >>),
      Dict(<< <<<<"a">>, List(<<X>>)>> >>) }
FilterPaths == {<<>>, <<"a">>, <<"b">>, <<"a", ".", "b">>, <<"a", ".", "b", ".", "a">>}
FilterData ==
    FilterRecords \cup {List(rs) : rs \in SeqsUpTo(FilterRecords, MaxItems)}

InitFilter ==
    /\ call \in [fn : {"filter_json"}, data : FilterData, filters : SeqsUpTo(FilterPaths, MaxFilters)]
    /\ ret = NotCalled
    /\ Idle

CallFilterJson ==
    /\ call.fn = "filter_json"
    /\ ret = NotCalled
    /\ ret' = Return(filter_json(call.data, call.filters))
    /\ UNCHANGED <<call, pipelineVars>>

NextFilter == CallFilterJson

SpecFilter == InitFilter /\ [][NextFilter]_vars

Filtered == call.fn = "filter_json" /\ ret # NotCalled

\* the requested paths in the requested order, each once (at its first request)
RECURSIVE Requested(_)
Requested(filters) ==
    IF filters = <<>> THEN <<>>
    ELSE LET rest == Requested(SubSeq(filters, 1, Len(filters) - 1))
             last == filters[Len(filters)]
         IN  IF last \in Range(rest) THEN rest ELSE Append(rest, last)

\* the value at a path of keys: the explicit missing value as soon as a key is absent or
\* the value walked into is not a mapping
RECURSIVE ValueAt(_, _)
ValueAt(v, path) ==
    IF path = <<>> THEN v
    ELSE LET parent == ValueAt(v, SubSeq(path, 1, Len(path) - 1))
             key == path[Len(path)]
         IN  IF parent.py = "dict" /\ \E i \in 1..Len(parent.items) : parent.items[i][1] = key
             THEN parent.items[CHOOSE i \in 1..Len(parent.items) : parent.items[i][1] = key][2]
             ELSE None

Projected(record, filters, output) ==
    /\ output.py = "dict"
    /\ Keys(output) = Requested(filters)
    /\ \A i \in 1..Len(output.items) :
           output.items[i][2] = ValueAt(record, split(output.items[i][1], Dot))

\* C7: for one Record or a collection of Records and any ordered list of dot-paths, each
\* output Record of filter_json has exactly the requested paths as top-level keys, in the
\* requested order, whether or not they exist in the source; a path with an absent or
\* non-mapping intermediate resolves to None; a collection is projected element by
\* element, keeping its length and order.
C7_FieldProjector ==
    Filtered =>
        IF call.data.py = "list"
        THEN /\ ret.value.py = "list"
             /\ Len(ret.value.elems) = Len(call.data.elems)
             /\ \A i \in 1..Len(call.data.elems) :
                    /\ Projected(call.data.elems[i], call.filters, ret.value.elems[i])
                    /\ ret.value.elems[i] = filter_json(call.data.elems[i], call.filters)
        ELSE Projected(call.data, call.filters, ret.value)

\* C7 witness: a list of two different Records projected on a present path and on a path
\* whose intermediate value is not a mapping
C7_Witness ==
    /\ Filtered
    /\ call.data.py = "list"
    /\ Len(call.data.elems) = 2
    /\ call.data.elems[1] = Dict(<< <<<<"a">>, X>> >>)
    /\ call.data.elems[2] = Dict(<< <<<<"a">>, Dict(<< <<<<"b">>, Y>> >>)>> >>)
    /\ call.filters = << <<"a", ".", "b">>, <<"a">> >>
    /\ ret.value.elems[1] = Dict(<< <<<<"a", ".", "b">>, None>>, <<<<"a">>, X>> >>)
    /\ ret.value.elems[2].items[1] = << <<"a", ".", "b">>, Y>>

(***************************************************************************)
(* The aggregating commands: department list, nodegroup list/get,          *)
(* node list/get, project list/get.                                        *)
(***************************************************************************)
S_name == <<"n", "a", "m", "e">>
S_spec == <<"s", "p", "e", "c">>
S_gpu == <<"g", "p", "u">>
S_clusters == <<"c", "l", "u", "s", "t", "e", "r", "s">>
S_uid == <<"u", "i", "d">>

DetailCmds == {"department list", "nodegroup get", "node get", "project get"}
NameCmds == {"nodegroup list", "node list", "project list"}
AggregatingCmds == DetailCmds \cup NameCmds

\* the collection each command fetches: clusters/{uid}/<this>
resource(cmd) ==
    CASE cmd = "department list" -> <<"d", "e", "p", "a", "r", "t", "m", "e", "n", "t", "s">>
      [] cmd \in {"nodegroup list", "nodegroup get"} -> <<"n", "o", "d", "e", "G", "r", "o", "u", "p", "s">>
      [] cmd \in {"node list", "node get"} -> <<"n", "o", "d", "e", "s">>
      [] cmd \in {"project list", "project get"} -> <<"p", "r", "o", "j", "e", "c", "t", "s">>
      [] cmd \in {"workload list", "workload get"} -> <<"w", "o", "r", "k", "l", "o", "a", "d", "s">>
      [] cmd = "billing list" -> <<"b", "i", "l", "l", "i", "n", "g">>

\* the word each command puts in its keys: cluster[..].<this>[i]
label(cmd) ==
    CASE cmd = "department list" -> <<"d", "e", "p", "a", "r", "t", "m", "e", "n", "t">>
      [] cmd \in {"nodegroup list", "nodegroup get"} -> <<"n", "o", "d", "e", "g", "r", "o", "u", "p">>
      [] cmd \in {"node list", "node get"} -> <<"n", "o", "d", "e">>
      [] cmd \in {"project list", "project get"} -> <<"p", "r", "o", "j", "e", "c", "t">>
      [] cmd \in {"workload list", "workload get"} -> <<"w", "o", "r", "k", "l", "o", "a", "d">>
      [] cmd = "billing list" -> <<"b", "i", "l", "l", "i", "n", "g">>

endpoint_unscoped(cluster_uid, cmd) == resource(cmd) \o <<"/">> \o cluster_uid

\* f"clusters/{cluster_uid}/departments" and its like
endpoint(cluster_uid, cmd) == S_clusters \o <<"/">> \o cluster_uid \o <<"/">> \o resource(cmd)

parent_key_unindexed(cluster_name, cmd, i) ==
    <<"c", "l", "u", "s", "t", "e", "r", "[">> \o cluster_name \o <<"]", ".">>
        \o label(cmd) \o <<"[", "0", "]">>

\* f"cluster[{cluster_name}].department[{i}]" and its like
parent_key(cluster_name, cmd, i) ==
    <<"c", "l", "u", "s", "t", "e", "r", "[">> \o cluster_name \o <<"]", ".">>
        \o label(cmd) \o <<"[">> \o str_int(i) \o <<"]">>

\* the commands whose per-cluster fetch goes through list_nodes_by_cluster_uid, which
\* catches the failure of the request and returns None
fetch_swallowed_always(cmd) == TRUE

fetch_swallowed(cmd) == cmd \in {"node list", "node get"}

\* the element appended for one fetched record: the flattened record, in the node and
\* project commands under 'node'/'project' beside 'cluster': cluster_name
element(cmd, cluster_name, flat) ==
    IF cmd \in {"node get", "project get"}
    THEN [cluster |-> cluster_name, item |-> flat]
    ELSE [item |-> flat]

\* [ng for ng in nodegroups if ng['name'] in args.name]
RECURSIVE select_names(_, _)
select_names(records, names) ==
    IF records = <<>> THEN <<>>
    ELSE (IF Get(records[1], S_name).s \in Range(names) THEN <<records[1]>> ELSE <<>>)
         \o select_names(Tail(records), names)

extend_replacing(all, new) == new

\* all_departments.append(...) for each element, in order
extend(all, new) == all \o new

\* the indexes (0-based, in order) of the records select_names keeps
RECURSIVE selected_indexes(_, _, _)
selected_indexes(records, names, i) ==
    IF records = <<>> THEN <<>>
    ELSE (IF Get(records[1], S_name).s \in Range(names) THEN <<i>> ELSE <<>>)
         \o selected_indexes(Tail(records), names, i + 1)

\* str(value) as an f-string renders it, for the values a flattened record holds
RECURSIVE str(_)
str(value) ==
    CASE value.py = "str" -> value.s
      [] value.py = "None" -> <<"N", "o", "n", "e">>
      [] value.py = "bool" -> IF value.b THEN <<"T", "r", "u", "e">> ELSE <<"F", "a", "l", "s", "e">>
      [] value.py = "list" ->
            <<"[">> \o join(<<",", " ">>, [i \in 1..Len(value.elems) |->
                                              <<"'">> \o str(value.elems[i]) \o <<"'">>]) \o <<"]">>
      [] value.py = "dict" -> <<"{", "}">>

\* output_lines.append(f"{key}: {value}") for every key of one flattened record
key_value_lines(flat) ==
    [i \in 1..Len(flat.items) |-> flat.items[i][1] \o <<":", " ">> \o str(flat.items[i][2])]

RECURSIVE concat(_)
concat(seqs) == IF seqs = <<>> THEN <<>> ELSE seqs[1] \o concat(Tail(seqs))

(***************************************************************************)
(* The control plane.                                                      *)
(***************************************************************************)
\* the record the control plane holds at index i of the collection of cluster uid
Resource(uid, i) ==
    Dict(<< <<S_name, Str(uid \o <<"-">> \o str_int(i))>>,
            <<S_spec, Dict(<< <<S_gpu, X>> >>)>> >>)

Collection(c) == [i \in 1..c.n |-> Resource(c.uid, i - 1)]

ClusterRef(c) == [name |-> c.name, uid |-> c.uid]

\* APIClient.get: raises when the request fails, returns response.json() otherwise
request_fails(path, cmd) ==
    \/ path = S_clusters /\ api.failing = S_clusters
    \/ \E j \in 1..Len(api.clusters) :
          path = endpoint(api.clusters[j].uid, cmd) /\ api.failing = api.clusters[j].uid

client_get(path, cmd) ==
    IF request_fails(path, cmd) THEN Raise("GET request failed: {e}", path)
    ELSE IF path = S_clusters THEN Return(List([i \in 1..Len(api.clusters) |-> ClusterRef(api.clusters[i])]))
    ELSE IF \E j \in 1..Len(api.clusters) : path = S_clusters \o <<"/">> \o api.clusters[j].uid
    THEN LET i == CHOOSE j \in 1..Len(api.clusters) : path = S_clusters \o <<"/">> \o api.clusters[j].uid
         IN  Return(Dict(<< <<S_name, Str(api.clusters[i].name)>>, <<S_uid, Str(api.clusters[i].uid)>> >>))
    ELSE LET i == CHOOSE j \in 1..Len(api.clusters) : endpoint(api.clusters[j].uid, cmd) = path
         IN  Return(List(Collection(api.clusters[i])))

(***************************************************************************)
(* The handlers, one step per request.                                     *)
(***************************************************************************)
NoOutput == [printed |-> <<>>, returned |-> None]

Caught_retrying(e) ==
    /\ log' = Append(log, [level |-> "error", msg |-> "Failed: {e}", e |-> e.exc])
    /\ UNCHANGED <<pc, clusters, k, acc, origin, out>>

\* the handler's `except Exception as e: logging.error(...); return None`
Caught(e) ==
    /\ pc' = "done"
    /\ log' = Append(log, [level |-> "error", msg |-> "Failed: {e}", e |-> e.exc])
    /\ out' = NoOutput
    /\ UNCHANGED <<clusters, k, acc, origin>>

\* not args.cluster: clusters = client.get("clusters")
ListClusters ==
    /\ pc = "start"
    /\ args.cmd \in AggregatingCmds
    /\ ~Truthy(args.cluster)
    /\ requests' = Append(requests, S_clusters)
    /\ LET r == client_get(S_clusters, args.cmd)
       IN  IF r.raised THEN Caught(r)
           ELSE IF ~Truthy(r.value)
           THEN /\ pc' = "done"
                /\ log' = Append(log, [level |-> "error", msg |-> "No clusters found.", e |-> ""])
                /\ out' = NoOutput
                /\ UNCHANGED <<clusters, k, acc, origin>>
           ELSE /\ clusters' = r.value.elems
                /\ k' = 1
                /\ pc' = "loop"
                /\ UNCHANGED <<acc, origin, out, log>>
    /\ UNCHANGED <<call, ret, api, args, status>>

\* args.cluster: cluster_uid = get_cluster_uid(client, args.cluster);
\* clusters = [{"name": args.cluster, "uid": cluster_uid}]
ResolveCluster ==
    /\ pc = "start"
    /\ args.cmd \in AggregatingCmds
    /\ Truthy(args.cluster)
    /\ requests' = Append(requests, S_clusters)
    /\ LET r == client_get(S_clusters, args.cmd)
           u == IF r.raised THEN r ELSE get_cluster_uid(r.value.elems, args.cluster)
       IN  IF u.raised THEN Caught(u)
           ELSE /\ clusters' = <<[name |-> args.cluster.s, uid |-> u.value]>>
                /\ k' = 1
                /\ pc' = "loop"
                /\ UNCHANGED <<acc, origin, out, log>>
    /\ UNCHANGED <<call, ret, api, args, status>>

\* `continue`: the cluster is skipped with a warning
Skip(level, cluster_name) ==
    /\ k' = k + 1
    /\ log' = Append(log, [level |-> level, msg |-> "No resources found for cluster {cluster_name}.",
                           e |-> cluster_name])
    /\ UNCHANGED <<pc, clusters, acc, origin, out>>

\* list_nodes_by_cluster_uid caught the failure of the request: it logs the error and
\* returns None, and the caller skips the cluster with its warning
SkipFailed(cluster_name, e) ==
    /\ k' = k + 1
    /\ log' = log \o <<[level |-> "error", msg |-> "Failed to fetch nodes for cluster {cluster_uid}: {e}",
                         e |-> e.exc],
                        [level |-> "warning", msg |-> "No resources found for cluster {cluster_name}.",
                         e |-> cluster_name]>>
    /\ UNCHANGED <<pc, clusters, acc, origin, out>>

\* the body of `for cluster in clusters:` for one cluster
FetchCluster ==
    /\ pc = "loop"
    /\ k <= Len(clusters)
    /\ LET cmd == args.cmd
           cluster_name == clusters[k].name
           cluster_uid == clusters[k].uid
           path == endpoint(cluster_uid, cmd)
           r == client_get(path, cmd)
           \* list_nodes_by_cluster_uid returns None when the request failed
           fetched == IF r.raised THEN None ELSE r.value
           named == cmd = "nodegroup get" /\ Truthy(args.name)
           selected == IF named THEN select_names(fetched.elems, args.name.elems) ELSE fetched.elems
           indexes == IF named THEN selected_indexes(fetched.elems, args.name.elems, 0)
                      ELSE [i \in 1..Len(fetched.elems) |-> i - 1]
           projected == IF Truthy(args.filter)
                        THEN filter_json(List(selected), split(args.filter.s, <<",">>)).elems
                        ELSE selected
           new == [i \in 1..Len(projected) |->
                     element(cmd, cluster_name,
                             flatten_json(projected[i], parent_key(cluster_name, cmd, i - 1), Dot))]
           names == [i \in 1..Len(fetched.elems) |-> Get(fetched.elems[i], S_name).s]
       IN  /\ requests' = Append(requests, path)
           /\ IF r.raised /\ ~fetch_swallowed(cmd) THEN Caught(r)
              ELSE IF r.raised THEN SkipFailed(cluster_name, r)
              ELSE IF ~Truthy(fetched) THEN Skip("warning", cluster_name)
              ELSE IF cmd \in NameCmds
              THEN /\ acc' = dict_set(acc, cluster_name, names)
                   /\ origin' = origin \o [i \in 1..Len(indexes) |-> [uid |-> cluster_uid, index |-> indexes[i]]]
                   /\ k' = k + 1
                   /\ UNCHANGED <<pc, clusters, out, log>>
              ELSE IF selected = <<>> THEN Skip("info", cluster_name)
              ELSE /\ acc' = extend(acc, new)
                   /\ origin' = origin \o [i \in 1..Len(indexes) |-> [uid |-> cluster_uid, index |-> indexes[i]]]
                   /\ k' = k + 1
                   /\ UNCHANGED <<pc, clusters, out, log>>
    /\ UNCHANGED <<call, ret, api, args, status>>

\* node_output[cluster_name].append(node['node']) for every element, in order
RECURSIVE group_by_cluster(_, _)
group_by_cluster(all, node_output) ==
    IF all = <<>> THEN node_output
    ELSE LET cluster_name == all[1].cluster
             sofar == IF \E i \in 1..Len(node_output) : node_output[i][1] = cluster_name
                      THEN node_output[CHOOSE i \in 1..Len(node_output) : node_output[i][1] = cluster_name][2]
                      ELSE <<>>
         IN  group_by_cluster(Tail(all), dict_set(node_output, cluster_name, Append(sofar, all[1].item)))

PrintLines(lines) == [print |-> "lines", lines |-> lines]
PrintJson(value) == [print |-> "json", value |-> value]
PrintMessage(text) == [print |-> "message", text |-> text]

\* what the detail commands print or return once the loop is over
render_detail(cmd, output, all) ==
    LET flats == [i \in 1..Len(all) |-> all[i].item]
        lines == concat([i \in 1..Len(flats) |-> key_value_lines(flats[i])])
    IN  IF cmd = "department list"
        THEN IF output = "json" THEN [printed |-> <<>>, returned |-> PrintJson(List(flats))]
             ELSE [printed |-> <<PrintLines(lines)>>, returned |-> None]
        ELSE IF all = <<>>
        THEN [printed |-> <<PrintMessage("No details found.")>>, returned |-> None]
        ELSE IF output = "json"
        THEN IF cmd = "nodegroup get"
             THEN [printed |-> <<PrintJson(List(flats))>>, returned |-> None]
             ELSE [printed |-> <<PrintJson(Dict([i \in 1..Len(group_by_cluster(all, <<>>)) |->
                                      <<group_by_cluster(all, <<>>)[i][1],
                                        List(group_by_cluster(all, <<>>)[i][2])>>]))>>,
                   returned |-> None]
        ELSE [printed |-> <<PrintLines(lines)>>, returned |-> None]

render_names_unseparated(cmd, output, name_dict) ==
    [printed |-> <<PrintLines(concat([i \in 1..Len(name_dict) |->
                 << <<"[">> \o name_dict[i][1] \o <<"]">> >> \o name_dict[i][2]]))>>,
     returned |-> None]

\* what the name-listing commands print once the loop is over
render_names(cmd, output, name_dict) ==
    IF name_dict = <<>> THEN [printed |-> <<PrintMessage("No resources found.")>>, returned |-> None]
    ELSE IF output = "json"
    THEN [printed |-> <<PrintJson(Dict([i \in 1..Len(name_dict) |->
                 <<name_dict[i][1], List([j \in 1..Len(name_dict[i][2]) |-> Str(name_dict[i][2][j])])>>]))>>,
          returned |-> None]
    ELSE IF output = "dot"
    THEN [printed |-> <<PrintLines(concat([i \in 1..Len(name_dict) |->
                 [j \in 1..Len(name_dict[i][2]) |->
                     parent_key(name_dict[i][1], cmd, j - 1) \o <<".">> \o S_name \o <<":", " ">>
                         \o name_dict[i][2][j]]]))>>,
          returned |-> None]
    ELSE [printed |-> <<PrintLines(concat([i \in 1..Len(name_dict) |->
                 << <<"[">> \o name_dict[i][1] \o <<"]">> >> \o name_dict[i][2] \o << <<>> >>]))>>,
          returned |-> None]

\* the code after the loop
Render ==
    /\ pc = "loop"
    /\ k > Len(clusters)
    /\ pc' = "done"
    /\ out' = IF args.cmd \in DetailCmds THEN render_detail(args.cmd, args.output, acc)
              ELSE render_names(args.cmd, args.output, acc)
    /\ UNCHANGED <<call, ret, api, args, clusters, k, acc, origin, requests, log, status>>

(***************************************************************************)
(* The single-cluster commands: workload list/get and billing list.        *)
(***************************************************************************)
SingleCmds == {"workload list", "workload get", "billing list"}

\* the return value of billing's `except Exception as e: return f"Error: {str(e)}"`
ErrorString(e) == [print |-> "error", text |-> "Error: {e}", e |-> e.exc]

\* the except clause of the handler of cmd: billing returns the error as a string and
\* logs nothing, the workload handlers log it and return None
CaughtBy(cmd, e) ==
    IF cmd = "billing list"
    THEN /\ pc' = "done"
         /\ out' = [printed |-> <<>>, returned |-> ErrorString(e)]
         /\ UNCHANGED <<clusters, k, acc, origin, log>>
    ELSE Caught(e)

filtered_never(data, filter) == data

\* if args.filter: data = filter_json(data, args.filter.split(','))
filtered(data, filter) ==
    IF Truthy(filter) THEN filter_json(data, split(filter.s, <<",">>)) ELSE data

\* cluster_uid = get_cluster_uid(client, args.cluster)
ResolveOne ==
    /\ pc = "start"
    /\ args.cmd \in SingleCmds
    /\ requests' = Append(requests, S_clusters)
    /\ LET r == client_get(S_clusters, args.cmd)
           u == IF r.raised THEN r ELSE get_cluster_uid(r.value.elems, args.cluster)
       IN  IF u.raised THEN CaughtBy(args.cmd, u)
           ELSE /\ clusters' = <<[uid |-> u.value]>>
                /\ k' = 1
                /\ pc' = "resolved"
                /\ UNCHANGED <<acc, origin, out, log>>
    /\ UNCHANGED <<call, ret, api, args, status>>

\* [workload['name'] for workload in workloads]: a KeyError when a workload has no 'name'
names_of(workloads) ==
    IF \E i \in 1..Len(workloads) : ~HasKey(workloads[i], S_name)
    THEN Raise("KeyError", S_name)
    ELSE Return([i \in 1..Len(workloads) |-> Get(workloads[i], S_name)])

\* what list_workloads prints under the cluster's name
render_workload_names(output, cluster_name, names) ==
    IF output = "json"
    THEN PrintJson(Dict(<< <<<<"c", "l", "u", "s", "t", "e", "r">>, Str(cluster_name)>>,
                           <<<<"w", "o", "r", "k", "l", "o", "a", "d", "s">>, List(names)>> >>))
    ELSE IF output = "dot"
    THEN PrintLines([i \in 1..Len(names) |->
            parent_key(cluster_name, "workload list", i - 1) \o <<".">> \o S_name \o <<":", " ">>
                \o str(names[i])])
    ELSE PrintLines(<< <<"[">> \o cluster_name \o <<"]">> >> \o [i \in 1..Len(names) |-> str(names[i])])

\* list_workloads once the cluster is resolved: the workloads, then the cluster's record
ListWorkloads ==
    /\ pc = "resolved"
    /\ args.cmd = "workload list"
    /\ LET cluster_uid == clusters[1].uid
           path == endpoint(cluster_uid, args.cmd)
           r == client_get(path, args.cmd)
           info_path == S_clusters \o <<"/">> \o cluster_uid
           cluster_info == client_get(info_path, args.cmd)
           cluster_name == Get(cluster_info.value, S_name).s
           workloads == filtered(r.value, args.filter).elems
           names == names_of(workloads)
       IN  IF r.raised
           THEN requests' = Append(requests, path) /\ Caught(r)
           ELSE /\ requests' = requests \o <<path, info_path>>
                /\ IF cluster_info.raised THEN Caught(cluster_info)
                   ELSE IF names.raised THEN Caught(names)
                   ELSE /\ acc' = <<<<cluster_name, [i \in 1..Len(workloads) |-> str(names.value[i])]>>>>
                        /\ origin' = [i \in 1..Len(workloads) |-> [uid |-> cluster_uid, index |-> i - 1]]
                        /\ out' = [printed |-> <<render_workload_names(args.output, cluster_name, names.value)>>,
                                   returned |-> None]
                        /\ pc' = "done"
                        /\ UNCHANGED <<clusters, k, log>>
    /\ UNCHANGED <<call, ret, api, args, status>>

\* the prefix get_workloads and list_billing give flatten_json
single_parent_key(cmd, output, cluster_uid, i) ==
    IF cmd = "workload get" /\ output = "dot" THEN parent_key(cluster_uid, cmd, i)
    ELSE label(cmd) \o <<"[">> \o str_int(i) \o <<"]">>

\* get_workloads and list_billing once the cluster is resolved
FetchOne(cmd) ==
    /\ pc = "resolved"
    /\ args.cmd = cmd
    /\ LET cluster_uid == clusters[1].uid
           path == endpoint(cluster_uid, cmd)
           r == client_get(path, cmd)
           records == filtered(r.value, args.filter).elems
           flats == [i \in 1..Len(records) |->
                       flatten_json(records[i], single_parent_key(cmd, args.output, cluster_uid, i - 1), Dot)]
           lines == concat([i \in 1..Len(flats) |-> key_value_lines(flats[i])])
           document == IF args.output = "json" THEN PrintJson(List(records)) ELSE PrintLines(lines)
       IN  /\ requests' = Append(requests, path)
           /\ IF r.raised THEN CaughtBy(cmd, r)
              ELSE /\ acc' = IF args.output = "json" THEN <<>> ELSE [i \in 1..Len(flats) |-> [item |-> flats[i]]]
                   /\ origin' = IF args.output = "json" THEN <<>>
                                ELSE [i \in 1..Len(flats) |-> [uid |-> cluster_uid, index |-> i - 1]]
                   /\ out' = IF cmd = "billing list" THEN [printed |-> <<>>, returned |-> document]
                             ELSE [printed |-> <<document>>, returned |-> None]
                   /\ pc' = "done"
                   /\ UNCHANGED <<clusters, k, log>>
    /\ UNCHANGED <<call, ret, api, args, status>>

GetWorkloads == FetchOne("workload get")

ListBilling == FetchOne("billing list")

(***************************************************************************)
(* The delete commands and APIClient.delete.                               *)
(***************************************************************************)
DeleteCmds == {"cluster delete", "department delete", "nodegroup delete", "project delete"}

\* f"clusters/{args.uid}", f"departments/{args.name}", ...
delete_endpoint(cmd, target) ==
    (CASE cmd = "cluster delete" -> S_clusters
       [] cmd = "department delete" -> <<"d", "e", "p", "a", "r", "t", "m", "e", "n", "t", "s">>
       [] cmd = "nodegroup delete" -> <<"n", "o", "d", "e", "g", "r", "o", "u", "p", "s">>
       [] cmd = "project delete" -> <<"p", "r", "o", "j", "e", "c", "t", "s">>)
    \o <<"/">> \o target

\* what the handler puts in the path: args.uid in delete_cluster, args.name in the others
target_of(cmd, arguments) ==
    IF cmd = "cluster delete" THEN arguments.uid ELSE arguments.name

\* response.raise_for_status(): an HTTPError for a 4xx or 5xx status, nothing otherwise
raises_for_status(status_code) == status_code >= 400 /\ status_code < 600

recognized_any_2xx(status_code) == status_code >= 200 /\ status_code < 300

\* response.status_code == 204
recognized(status_code) == status_code = 204

\* APIClient.delete: raises when the request fails or the status is an error, otherwise
\* returns whether the status is 204
client_delete(path) ==
    IF api.failing # <<>> THEN Raise("DELETE request failed: {e}", path)
    ELSE IF raises_for_status(api.status) THEN Raise("DELETE request failed: {e}", path)
    ELSE Return(Bool(recognized(api.status)))

\* a delete handler under main's try: the handler returns what APIClient.delete returned
\* and logs the deletion when it is True; an exception leaves the handler, and main logs
\* "Error: ..." and exits with 1
Delete(cmd) ==
    /\ pc = "start"
    /\ args.cmd = cmd
    /\ LET path == delete_endpoint(cmd, target_of(cmd, args))
           success == client_delete(path)
       IN  /\ requests' = Append(requests, path)
           /\ IF success.raised
              THEN /\ log' = log \o <<[level |-> "error", msg |-> success.exc, e |-> success.exc],
                                      [level |-> "error", msg |-> "Error: {e}", e |-> success.exc]>>
                   /\ out' = NoOutput
                   /\ pc' = "exit"
                   /\ status' = Exited(1)
              ELSE /\ log' = IF Truthy(success.value)
                             THEN Append(log, [level |-> "info", msg |-> "deleted successfully", e |-> ""])
                             ELSE log
                   /\ out' = [printed |-> <<>>, returned |-> success.value]
                   /\ pc' = "done"
                   /\ UNCHANGED status
    /\ UNCHANGED <<call, ret, api, args, clusters, k, acc, origin>>

DeleteCluster == Delete("cluster delete")

DeleteDepartment == Delete("department delete")

DeleteNodegroup == Delete("nodegroup delete")

DeleteProject == Delete("project delete")

(***************************************************************************)
(* main, once the handler has returned.                                     *)
(***************************************************************************)
PrintResult(result) == [print |-> "result", value |-> result]

\* result = args.func(args, client); print(result): the process ends with status 0
MainPrint ==
    /\ pc = "done"
    /\ out' = [out EXCEPT !.printed = Append(@, PrintResult(out.returned))]
    /\ pc' = "exit"
    /\ status' = Exited(0)
    /\ UNCHANGED <<call, ret, api, args, clusters, k, acc, origin, requests, log>>

(***************************************************************************)
(* Spec: one invocation of a command against a control plane, from main's  *)
(* call of the handler (mmaictl.py line 76) to the end of the process.     *)
(***************************************************************************)
ClusterNames == {<<"a">>, <<"b">>}
Uid(i) == <<"u">> \o str_int(i)

Worlds ==
    UNION {{[clusters |-> [i \in 1..n |-> [name |-> names[i], uid |-> Uid(i), n |-> counts[i]]],
             failing |-> f]
            : names \in [1..n -> ClusterNames], counts \in [1..n -> 0..MaxItems],
              f \in {<<>>, S_clusters} \cup {Uid(i) : i \in 1..n}}
           : n \in 0..MaxClusters}

Selectors == {None, Str(<<"a">>), Str(<<"b">>), Str(Uid(1))}
FilterArgs == {None, Str(S_name \o <<",">> \o S_spec \o <<".">> \o S_gpu)}
NameArgs == {None, List(<<Uid(1) \o <<"-", "1">> >>)}

Invocations ==
    [cmd : DetailCmds \ {"nodegroup get"}, cluster : Selectors, filter : FilterArgs,
     output : {"text", "json"}, name : {None}]
    \cup [cmd : {"nodegroup get"}, cluster : Selectors, filter : FilterArgs,
          output : {"text", "json"}, name : NameArgs]
    \cup [cmd : NameCmds, cluster : Selectors, filter : {None},
          output : {"default", "dot", "json"}, name : {None}]

SingleSelectors == {None, Str(<<"b">>), Str(Uid(1))}
SingleFilterArgs == {None, Str(S_name), Str(S_spec), Str(S_spec \o <<".">> \o S_gpu \o <<",">> \o S_uid)}

SingleInvocations ==
    [cmd : {"workload list", "workload get"}, cluster : SingleSelectors, filter : SingleFilterArgs,
     output : {"text", "dot", "json"}, name : {None}]
    \cup [cmd : {"billing list"}, cluster : SingleSelectors, filter : SingleFilterArgs,
          output : {"text", "json"}, name : {None}]

\* the status the control plane answers a DELETE with
Statuses == {200, 202, 204, 304, 404, 500}

DeleteWorlds == [clusters : {<<>>}, failing : {<<>>, <<"*">>}, status : Statuses]

DeleteInvocations ==
    [cmd : {"cluster delete"}, uid : {Uid(1), <<"x">>}]
        \cup [cmd : DeleteCmds \ {"cluster delete"}, name : {Uid(1), <<"x">>}]

Init ==
    /\ call = [fn |-> "none"]
    /\ ret = NotCalled
    /\ \/ api \in Worlds /\ args \in Invocations \cup SingleInvocations
       \/ api \in DeleteWorlds /\ args \in DeleteInvocations
    /\ pc = "start"
    /\ clusters = <<>>
    /\ k = 0
    /\ acc = <<>>
    /\ origin = <<>>
    /\ requests = <<>>
    /\ out = NoOutput
    /\ log = <<>>
    /\ status = Running

Next ==
    \/ ListClusters \/ ResolveCluster \/ FetchCluster \/ Render
    \/ ResolveOne \/ ListWorkloads \/ GetWorkloads \/ ListBilling
    \/ DeleteCluster \/ DeleteDepartment \/ DeleteNodegroup \/ DeleteProject
    \/ MainPrint

Spec == Init /\ [][Next]_vars

(***************************************************************************)
(* The aggregation claims.                                                 *)
(***************************************************************************)
Finished == pc = "done" /\ args.cmd \in AggregatingCmds
AllClusters == ~Truthy(args.cluster)

\* a request that was issued failed
Failed == \E i \in 1..Len(requests) : request_fails(requests[i], args.cmd)

RECURSIVE SortedSeq(_)
SortedSeq(S) ==
    IF S = {} THEN <<>>
    ELSE LET m == CHOOSE x \in S : \A y \in S : x <= y
         IN  <<m>> \o SortedSeq(S \ {m})

\* the indexes of the records of cluster c the invocation asks for: all of them, or with
\* nodegroup get --name those whose name is listed
KeptIndexes(c) ==
    SortedSeq({i \in 0..(c.n - 1) :
                 (args.cmd = "nodegroup get" /\ args.name # None)
                    => (c.uid \o <<"-">> \o str_int(i)) \in Range(args.name.elems)})

\* cluster[<name>].<label>[<j>]
ExpectedPrefix(cluster_name, j) ==
    <<"c", "l", "u", "s", "t", "e", "r", "[">> \o cluster_name \o <<"]", ".">>
        \o label(args.cmd) \o <<"[", Digits[j + 1], "]">>

\* record i of cluster uid as the j-th element of a listing under cluster_name: its name
\* and its spec.gpu under the prefix (the --filter of this model asks for both)
ExpectedFlat(cluster_name, uid, i, j) ==
    Dict(<< <<ExpectedPrefix(cluster_name, j) \o <<".">> \o S_name, Str(uid \o <<"-">> \o str_int(i))>>,
            <<ExpectedPrefix(cluster_name, j) \o <<".">> \o S_spec \o <<".">> \o S_gpu, X>> >>)

ExpectedOf(c) ==
    [j \in 1..Len(KeptIndexes(c)) |->
        [uid |-> c.uid, index |-> KeptIndexes(c)[j],
         flat |-> ExpectedFlat(c.name, c.uid, KeptIndexes(c)[j], j - 1)]]

\* the collections of the listed clusters, cluster by cluster and in each by index
RECURSIVE ExpectedUpTo(_)
ExpectedUpTo(n) ==
    IF n = 0 THEN <<>> ELSE ExpectedUpTo(n - 1) \o ExpectedOf(api.clusters[n])

ExpectedAll == ExpectedUpTo(Len(api.clusters))

\* C4: without a cluster selector the command lists the clusters, fetches the collection
\* of each under its uid, skips the clusters whose collection is empty, and its result is
\* the remaining collections one after the other, in cluster-list order and in each in
\* the order returned: no element lost, duplicated or reordered.
C4_AllClustersConcatenation ==
    (Finished /\ args.cmd \in DetailCmds /\ AllClusters /\ ~Failed /\ api.clusters # <<>>) =>
        /\ requests = <<S_clusters>> \o [i \in 1..Len(api.clusters) |->
                                            S_clusters \o <<"/">> \o api.clusters[i].uid \o <<"/">> \o resource(args.cmd)]
        /\ Len(acc) = Len(ExpectedAll)
        /\ \A p \in 1..Len(acc) :
              /\ origin[p] = [uid |-> ExpectedAll[p].uid, index |-> ExpectedAll[p].index]
              /\ acc[p].item = ExpectedAll[p].flat

\* C4 witness: department list over two clusters of two and one departments ends with the
\* three of them
C4_Witness ==
    /\ Finished
    /\ args.cmd = "department list"
    /\ AllClusters
    /\ ~Failed
    /\ Len(api.clusters) = 2
    /\ api.clusters[1].n = 2
    /\ api.clusters[2].n = 1
    /\ Len(acc) = 3
    /\ origin[3] = [uid |-> api.clusters[2].uid, index |-> 0]

OwnerName(uid) == api.clusters[CHOOSE i \in 1..Len(api.clusters) : api.clusters[i].uid = uid].name

\* C5: every element of an aggregated result is tagged with the name of the cluster it
\* was fetched from, with all clusters aggregated and with one cluster selected by name
\* or by uid; a cluster with no resources contributes no element.
C5_TaggedWithOwnerName ==
    (Finished /\ args.cmd \in DetailCmds) =>
        \A p \in 1..Len(acc) :
            LET tag == <<"c", "l", "u", "s", "t", "e", "r", "[">> \o OwnerName(origin[p].uid) \o <<"]", ".">>
            IN  /\ \A i \in 1..Len(acc[p].item.items) : StartsWith(acc[p].item.items[i][1], tag)
                /\ args.cmd \in {"node get", "project get"} => acc[p].cluster = OwnerName(origin[p].uid)
                /\ \E i \in 1..Len(api.clusters) :
                      api.clusters[i].uid = origin[p].uid /\ origin[p].index < api.clusters[i].n

\* C10: the prefixes the callers give flatten_json keep the keys of two different source
\* records apart, for every cluster list, clusters of one name included.
C10_CollisionFree ==
    (Finished /\ args.cmd \in DetailCmds) =>
        \A p, q \in 1..Len(acc) :
            p # q => Range(Keys(acc[p].item)) \cap Range(Keys(acc[q].item)) = {}

\* resources reached the output: printed lines, a printed or returned JSON document
OutputsResources ==
    \/ out.returned # None
    \/ \E i \in 1..Len(out.printed) :
          \/ out.printed[i].print = "json"
          \/ out.printed[i].print = "lines" /\ out.printed[i].lines # <<>>

Aborted ==
    /\ request_fails(requests[Len(requests)], args.cmd)
    /\ out = NoOutput
    /\ log # <<>> /\ log[Len(log)].level = "error"

Listing == [i \in 1..Len(api.clusters) |-> ClusterRef(api.clusters[i])]

Selected == Truthy(args.cluster)

SelectorMatches == \E i \in 1..Len(Listing) : Matches(Listing[i], args.cluster.s)

\* C11: with a cluster selector, an aggregating command lists the clusters once, resolves
\* the selector to the uid of the first cluster matching it by name or uid, and fetches
\* the resource collection exactly once, under that uid; when the listing fails or no
\* cluster matches, nothing is fetched.
C11_SelectorFetchesOnce ==
    (Finished /\ Selected) =>
        IF api.failing # S_clusters /\ SelectorMatches
        THEN requests = <<S_clusters,
                          S_clusters \o <<"/">> \o FirstMatching(Listing, args.cluster.s).uid
                              \o <<"/">> \o resource(args.cmd)>>
        ELSE requests = <<S_clusters>> /\ out = NoOutput

\* C11 witness: project list --cluster b over clusters a and b fetched the projects of the
\* second cluster, and of no other
C11_Witness ==
    /\ Finished
    /\ args.cmd = "project list"
    /\ args.cluster = Str(<<"b">>)
    /\ Len(api.clusters) = 2
    /\ api.clusters[1].name = <<"a">>
    /\ api.clusters[2].name = <<"b">>
    /\ requests = <<S_clusters, endpoint(api.clusters[2].uid, "project list")>>
    /\ acc # <<>>

\* the handler has returned
Done == pc = "done"

\* the commands that project with --filter and then flatten
FilterCmds == DetailCmds \cup {"workload get", "billing list"}

\* the dot-paths --filter asks for
RequestedPaths == Range(split(args.filter.s, <<",">>))

\* the cluster a request for a resource collection is scoped under
ClusterOf(path) ==
    api.clusters[CHOOSE j \in 1..Len(api.clusters) : path = endpoint(api.clusters[j].uid, args.cmd)]

\* the number of records the successful fetches of the invocation returned (and, with
\* nodegroup get --name, kept)
RECURSIVE FetchedCount(_)
FetchedCount(n) ==
    IF n = 0 THEN 0
    ELSE FetchedCount(n - 1)
         + (IF requests[n] = S_clusters \/ request_fails(requests[n], args.cmd) THEN 0
            ELSE Len(KeptIndexes(ClusterOf(requests[n]))))

\* the JSON document a single-cluster command emitted: it never flattens for json
EmittedJson ==
    IF args.cmd = "billing list" THEN out.returned.value.elems ELSE out.printed[1].value.elems

Unflattened == args.cmd \in {"workload get", "billing list"} /\ args.output = "json"

\* the text of key up to its last "]": the prefix the caller gave flatten_json
PrefixOfKey(key) ==
    LET ends == {i \in 1..Len(key) : key[i] = "]"}
    IN  IF ends = {} THEN <<>> ELSE SubSeq(key, 1, CHOOSE i \in ends : \A j \in ends : j <= i)

\* key is prefix.path for a requested path, or prefix.path.sub... below a nested mapping
UnderRequestedPath(key, prefix) ==
    \E f \in RequestedPaths :
        \/ key = prefix \o <<".">> \o f
        \/ StartsWith(key, prefix \o <<".">> \o f \o <<".">>)

\* C12: in every command that takes --filter and flattens, the projection is applied to
\* each fetched element after the fetch and before flattening: the elements are as many as
\* were fetched, and every key of an element is the element's prefix followed by a
\* requested path, possibly extended by the keys of a nested mapping; where the command
\* does not flatten (json of workload get and billing list) the keys are the requested paths.
C12_FilterBeforeFlatten ==
    (Done /\ args.cmd \in FilterCmds /\ Truthy(args.filter)
          /\ ~(out.returned # None /\ out.returned.print = "error")) =>
        IF Unflattened
        THEN /\ Len(requests) = 2 /\ ~request_fails(requests[2], args.cmd)
                => Len(EmittedJson) = FetchedCount(Len(requests))
             /\ Len(requests) = 2 /\ ~request_fails(requests[2], args.cmd)
                => \A i \in 1..Len(EmittedJson) : Range(Keys(EmittedJson[i])) = RequestedPaths
        ELSE /\ Len(acc) = FetchedCount(Len(requests))
             /\ \A p \in 1..Len(acc) :
                   \A i \in 1..Len(acc[p].item.items) :
                       LET key == acc[p].item.items[i][1]
                       IN  /\ PrefixOfKey(key) # <<>>
                           /\ PrefixOfKey(key) = PrefixOfKey(acc[p].item.items[1][1])
                           /\ UnderRequestedPath(key, PrefixOfKey(key))

\* C12 witness: workload get --filter spec fetched two workloads and flattened each to the
\* one key workload[i].spec.gpu, below the requested path
C12_Witness ==
    /\ Done
    /\ args.cmd = "workload get"
    /\ args.output = "text"
    /\ args.filter = Str(S_spec)
    /\ Len(acc) = 2
    /\ Keys(acc[2].item) = << <<"w", "o", "r", "k", "l", "o", "a", "d", "[", "1", "]", ".">> \o S_spec \o <<".">> \o S_gpu >>

\* an error was logged
ErrorLogged == \E i \in 1..Len(log) : log[i].level = "error"

\* C13: a workload listing without a cluster selector, while two or more clusters exist
\* and every request succeeds, does not fail: the workloads of every cluster are fetched,
\* each under its cluster's uid, and they are output.
C13_WorkloadsAcrossClusters ==
    (Done /\ args.cmd \in {"workload list", "workload get"} /\ ~Selected
          /\ Len(api.clusters) >= 2 /\ api.failing = <<>>) =>
        /\ ~ErrorLogged
        /\ requests = <<S_clusters>> \o [i \in 1..Len(api.clusters) |-> endpoint(api.clusters[i].uid, args.cmd)]
        /\ out.printed # <<>>

\* the handler has returned or the process has ended
Ended == pc \in {"done", "exit"}

\* a request the invocation issued failed
RequestFailed ==
    IF args.cmd \in DeleteCmds THEN requests # <<>> /\ client_delete(requests[1]).raised
    ELSE Failed

\* the resolver was called on the listing and raised: not found, ambiguous, no clusters
ResolverFailed ==
    /\ args.cmd \notin DeleteCmds
    /\ args.cmd \in SingleCmds \/ Selected
    /\ requests # <<>>
    /\ api.failing # S_clusters
    /\ get_cluster_uid(Listing, args.cluster).raised

ExceptionArose == RequestFailed \/ ResolverFailed

\* the user was given the string "Error: <message>", on the log or as the printed result
ErrorStringShown ==
    \/ \E i \in 1..Len(log) : log[i].level = "error" /\ log[i].msg = "Error: {e}"
    \/ "print" \in DOMAIN out.returned /\ out.returned.print = "error"

\* C14: every exception raised inside a command (a failed request, a resolver failure) is
\* caught at the command boundary, logged as an error, and shown to the user as the
\* string "Error: <message>".
C14_ErrorsSurfaced ==
    (Ended /\ ExceptionArose) => ErrorLogged /\ ErrorStringShown

\* the i-th request of the invocation failed
FailedAt(i) ==
    IF args.cmd \in DeleteCmds THEN client_delete(requests[i]).raised
    ELSE request_fails(requests[i], args.cmd)

\* the invocation ended on an error: nothing but the error reached the user
EndedFatally ==
    /\ ErrorLogged \/ ("print" \in DOMAIN out.returned /\ out.returned.print = "error")
    /\ out.printed = <<>>
    /\ out.returned = None \/ out.returned.print = "error"

DeleteReturned(b) ==
    /\ out.returned = Bool(b)
    /\ (\E i \in 1..Len(log) : log[i].msg = "deleted successfully") <=> b
    /\ ~ErrorLogged
    /\ pc = "exit" => status = Exited(0)

\* the delete raised: the error is logged and the process ends with status 1
DeleteRaised ==
    /\ pc = "exit"
    /\ status = Exited(1)
    /\ ErrorLogged
    /\ out = NoOutput

Is2xx(status_code) == status_code >= 200 /\ status_code < 300

JsonEmitted ==
    /\ Done
    /\ args.cmd \in FilterCmds
    /\ args.output = "json"
    /\ \/ "print" \in DOMAIN out.returned /\ out.returned.print = "json"
       \/ out.printed # <<>> /\ out.printed[1].print = "json"

\* the records of the emitted JSON document, in order
JsonRecords ==
    LET doc == IF out.printed # <<>> THEN out.printed[1].value ELSE out.returned.value
    IN  IF doc.py = "list" THEN doc.elems
        ELSE concat([i \in 1..Len(doc.items) |-> doc.items[i][2].elems])

\* C18: in json mode the emitted records are the fetched, field-projected records
\* themselves, not flattened: no key carries a cluster[..] or [index] prefix, and without
\* a filter each record is the record the control plane returned, nested mappings nested.
C18_JsonUnflattened ==
    JsonEmitted =>
        \A r \in 1..Len(JsonRecords) :
            /\ \A i \in 1..Len(JsonRecords[r].items) : "[" \notin Range(JsonRecords[r].items[i][1])
            /\ args.filter = None =>
                  \E c \in 1..Len(api.clusters) : \E i \in 0..(api.clusters[c].n - 1) :
                      JsonRecords[r] = Resource(api.clusters[c].uid, i)

\* lines were printed in dot mode
DotPrinted ==
    /\ Done
    /\ args.cmd \in NameCmds \cup {"workload list", "workload get"}
    /\ args.output = "dot"
    /\ out.printed # <<>>
    /\ out.printed[1].print = "lines"

\* the leaves of the flattened collection of workload get, element after element
FlatLeaves == concat([p \in 1..Len(acc) |-> acc[p].item.items])

\* the leaves of a name listing: for each cluster of the collection and each name, the
\* path cluster[<cluster>].<label>[<index>].name and the name
NameLeaves ==
    concat([c \in 1..Len(acc) |->
              [j \in 1..Len(acc[c][2]) |->
                  <<ExpectedPrefix(acc[c][1], j - 1) \o <<".">> \o S_name, Str(acc[c][2][j])>>]])

DotLeaves == IF args.cmd = "workload get" THEN FlatLeaves ELSE NameLeaves

\* the cluster is named by its name, by its uid, or by the selector that resolved to it
NamesCluster(text, uid) == text \in {uid, OwnerName(uid)} \/ (Selected /\ text = args.cluster.s)

\* C19: in dot mode the output is one line per leaf of the flattened collection, in the
\* collection's order, each line the leaf's path, ": " and its value; the path starts with
\* cluster[<the owning cluster>].<resource>[<the element's index>].
C19_DotLines ==
    DotPrinted =>
        LET lines == out.printed[1].lines
        IN  /\ Len(lines) = Len(DotLeaves)
            /\ \A i \in 1..Len(lines) : lines[i] = DotLeaves[i][1] \o <<":", " ">> \o str(DotLeaves[i][2])
            /\ args.cmd = "workload get" =>
                  \A p \in 1..Len(acc) : \A i \in 1..Len(acc[p].item.items) :
                      \E c \in {origin[p].uid, OwnerName(origin[p].uid)} :
                          StartsWith(acc[p].item.items[i][1], ExpectedPrefix(c, origin[p].index) \o <<".">>)
            /\ args.cmd # "workload get" =>
                  /\ \A c \in 1..Len(acc) : \E u \in 1..Len(api.clusters) :
                        /\ NamesCluster(acc[c][1], api.clusters[u].uid)
                        /\ acc[c][2] = [j \in 1..api.clusters[u].n |->
                                           Get(Resource(api.clusters[u].uid, j - 1), S_name).s]
                  /\ Len(acc) = Cardinality({origin[p].uid : p \in 1..Len(origin)}) => Len(lines) = Len(origin)

\* C19 witness: node list -o dot over clusters a (two nodes) and b (one node) printed
\* three lines, the third for node 0 of cluster b
C19_Witness ==
    /\ DotPrinted
    /\ args.cmd = "node list"
    /\ ~Selected
    /\ Len(api.clusters) = 2
    /\ api.clusters[1].n = 2
    /\ api.clusters[2].name = <<"b">>
    /\ Len(out.printed[1].lines) = 3
    /\ out.printed[1].lines[3] =
          <<"c", "l", "u", "s", "t", "e", "r", "[", "b", "]", ".", "n", "o", "d", "e", "[", "0", "]", ".">>
              \o S_name \o <<":", " ", "u", "2", "-", "0">>

\* lines were printed, or returned for printing, in text (default) mode
TextPrinted ==
    /\ Done
    /\ args.cmd \notin DeleteCmds
    /\ args.output \in {"text", "default"}
    /\ \/ out.printed # <<>> /\ out.printed[1].print = "lines"
       \/ "print" \in DOMAIN out.returned /\ out.returned.print = "lines"

TextLines == IF out.printed # <<>> THEN out.printed[1].lines ELSE out.returned.lines

\* the header line of a group: [<cluster name>]
Header(cluster_name) == <<"[">> \o cluster_name \o <<"]">>

IsHeader(line) == line # <<>> /\ line[1] = "[" /\ line[Len(line)] = "]"

setup_logging(arguments) ==
    IF Len(arguments) # 2
    THEN Raise("TypeError", "setup_logging() missing 1 required positional argument: 'quiet'")
    ELSE Return(None)

Verbosities == {0, 1, 2}

InitMain ==
    /\ call \in [fn : {"main"}, verbose : Verbosities]
    /\ ret = NotCalled
    /\ \/ api \in Worlds /\ args \in Invocations \cup SingleInvocations
       \/ api \in DeleteWorlds /\ args \in DeleteInvocations
    /\ pc = "main"
    /\ clusters = <<>>
    /\ k = 0
    /\ acc = <<>>
    /\ origin = <<>>
    /\ requests = <<>>
    /\ out = NoOutput
    /\ log = <<>>
    /\ status = Running

\* main, lines 67-76: setup_logging(args.verbose) is called outside the try; when it
\* raises, the process ends on the uncaught exception with status 1 and no handler runs,
\* otherwise the handler is called
Main ==
    /\ pc = "main"
    /\ ret' = setup_logging(<<call.verbose>>)
    /\ IF ret'.raised
       THEN pc' = "exit" /\ status' = Exited(1)
       ELSE pc' = "start" /\ UNCHANGED status
    /\ UNCHANGED <<call, api, args, clusters, k, acc, origin, requests, out, log>>

NextMain == Main

SpecMain == InitMain /\ [][NextMain]_vars

\* the control plane answers every request of the invocation and the resolver finds its
\* cluster: the command has nothing to fail on
NothingFails ==
    /\ api.failing = <<>>
    /\ args.cmd \in DeleteCmds => ~raises_for_status(api.status)
    /\ args.cmd \notin DeleteCmds =>
          /\ Len(api.clusters) = 1
          /\ Selected => SelectorMatches
          /\ args.filter = None

\* C15: the process exits with status 0 when the command succeeds, and with status 1
\* only when an exception arose in the command handler.
C15_ExitCodes ==
    (pc = "exit" /\ NothingFails) => status = Exited(0)

(***************************************************************************)
(* The Python heap: the objects a call is given and the objects it makes.  *)
(* A dict or list lives in the heap under its identity, and a value held   *)
(* by an object is a scalar or a reference Ref(id); an assignment to an    *)
(* item of an object is a store at its identity, a comprehension or        *)
(* dict(...) is an allocation.                                             *)
(***************************************************************************)
Ref(id) == [py |-> "ref", id |-> id]

alloc_in_place(heap, obj) ==
    IF heap = <<>> THEN [heap |-> <<obj>>, value |-> Ref(1)]
    ELSE [heap |-> [heap EXCEPT ![1] = obj], value |-> Ref(1)]

\* a new dict or list object: dict(items), a comprehension, response.json()
alloc(heap, obj) == [heap |-> Append(heap, obj), value |-> Ref(Len(heap) + 1)]

\* response.json(): the decoded value as objects of the heap
RECURSIVE Store(_, _)
RECURSIVE StoreAll(_, _, _)
StoreAll(heap, values, done) ==
    IF values = <<>> THEN [heap |-> heap, values |-> done]
    ELSE LET r == Store(heap, values[1])
         IN  StoreAll(r.heap, Tail(values), Append(done, r.value))

Store(heap, v) ==
    IF v.py = "dict"
    THEN LET r == StoreAll(heap, [i \in 1..Len(v.items) |-> v.items[i][2]], <<>>)
         IN  alloc(r.heap, Dict([i \in 1..Len(v.items) |-> <<v.items[i][1], r.values[i]>>]))
    ELSE IF v.py = "list"
    THEN LET r == StoreAll(heap, v.elems, <<>>)
         IN  alloc(r.heap, List(r.values))
    ELSE [heap |-> heap, value |-> v]

\* the value a reference stands for, its objects read from the heap
RECURSIVE Load(_, _)
Load(heap, v) ==
    IF v.py # "ref" THEN v
    ELSE LET o == heap[v.id]
         IN  IF o.py = "dict"
             THEN Dict([i \in 1..Len(o.items) |-> <<o.items[i][1], Load(heap, o.items[i][2])>>])
             ELSE List([i \in 1..Len(o.elems) |-> Load(heap, o.elems[i])])

\* isinstance(value, dict)
is_dict(heap, v) == v.py = "ref" /\ heap[v.id].py = "dict"
is_list(heap, v) == v.py = "ref" /\ heap[v.id].py = "list"

\* flatten_json on the heap: reads nested_json.items(), builds the local list `items`
\* and returns dict(items), a new object
RECURSIVE flatten_json_heap(_, _, _, _)
RECURSIVE flatten_loop(_, _, _, _, _)
flatten_loop(heap, its, parent, sep, items) ==
    IF its = <<>> THEN [heap |-> heap, items |-> items]
    ELSE LET key == its[1][1]
             value == its[1][2]
             nk == new_key(parent, sep, key)
         IN  IF is_dict(heap, value)
             THEN LET r == flatten_json_heap(heap, value, nk, sep)
                  IN  flatten_loop(r.heap, Tail(its), parent, sep, items \o r.heap[r.value.id].items)
             ELSE flatten_loop(heap, Tail(its), parent, sep, Append(items, <<nk, value>>))

flatten_json_heap(heap, nested_json, parent, sep) ==
    LET r == flatten_loop(heap, heap[nested_json.id].items, parent, sep, <<>>)
    IN  alloc(r.heap, Dict(dict(r.items)))

\* extract_field on the heap: obj is rebound to obj[key], nothing is stored
RECURSIVE extract_keys_heap(_, _, _)
extract_keys_heap(heap, obj, keys) ==
    IF keys = <<>> THEN obj
    ELSE IF is_dict(heap, obj) /\ HasKey(heap[obj.id], keys[1])
         THEN extract_keys_heap(heap, Get(heap[obj.id], keys[1]), Tail(keys))
         ELSE None

\* {field: extract_field(item, field) for field in filters}: a new dict
project_heap(heap, item, filters) ==
    alloc(heap, Dict(dict([i \in 1..Len(filters) |->
                             <<filters[i], extract_keys_heap(heap, item, split(filters[i], Dot))>>])))

RECURSIVE project_all_heap(_, _, _, _)
project_all_heap(heap, elems, filters, done) ==
    IF elems = <<>> THEN [heap |-> heap, values |-> done]
    ELSE LET r == project_heap(heap, elems[1], filters)
         IN  project_all_heap(r.heap, Tail(elems), filters, Append(done, r.value))

\* filter_json on the heap: a new list of new dicts, a new dict, or data itself
filter_json_heap(heap, data, filters) ==
    IF is_list(heap, data)
    THEN LET r == project_all_heap(heap, heap[data.id].elems, filters, <<>>)
         IN  alloc(r.heap, List(r.values))
    ELSE IF is_dict(heap, data) THEN project_heap(heap, data, filters)
    ELSE [heap |-> heap, value |-> data]

\* flattened_workloads.append(flatten_json(workload, parent_key=f'workload[{i}]')) for
\* every workload, in order
RECURSIVE flatten_all_heap(_, _, _, _)
flatten_all_heap(heap, elems, i, done) ==
    IF elems = <<>> THEN [heap |-> heap, values |-> done]
    ELSE LET r == flatten_json_heap(heap, elems[1],
                                    <<"w", "o", "r", "k", "l", "o", "a", "d", "[">> \o str_int(i) \o <<"]">>, Dot)
         IN  flatten_all_heap(r.heap, Tail(elems), i + 1, Append(done, r.value))

\* output_lines.append(f"{key}: {value}") for every flattened workload: the heap is read
render_heap(heap, flats) ==
    concat([i \in 1..Len(flats) |-> key_value_lines(Load(heap, flats[i]))])

\* get_workloads from the response to the printed lines (text mode): the optional
\* projection, the flattening of each workload, the rendering
pipeline_heap(heap, workloads, filters) ==
    LET f == IF filters # <<>> THEN filter_json_heap(heap, workloads, filters)
             ELSE [heap |-> heap, value |-> workloads]
        r == flatten_all_heap(f.heap, f.heap[f.value.id].elems, 0, <<>>)
    IN  [heap |-> r.heap, value |-> render_heap(r.heap, r.values)]

clusters_request_written == [method |-> "PUT", endpoint |-> S_clusters]

\* client.get("clusters"): the one request get_cluster_uid issues
clusters_request == [method |-> "GET", endpoint |-> S_clusters]

\* a cluster reference as the dict the control plane returns
ClusterDict(c) == Dict(<< <<S_name, Str(c.name)>>, <<S_uid, Str(c.uid)>> >>)

\* get_cluster_uid with its client: the request it issues, the heap once it has returned
\* or raised, the reference to the decoded listing, and what it returned or raised; the
\* loop reads cluster['name'] and cluster['uid'], the list of available names is new
get_cluster_uid_heap(heap, world, cluster_identifier) ==
    IF world.failing
    THEN [heap |-> heap, requests |-> <<clusters_request>>, listing |-> None,
          result |-> Raise("GET request failed: {e}", S_clusters)]
    ELSE LET r == Store(heap, List([i \in 1..Len(world.clusters) |-> ClusterDict(world.clusters[i])]))
             refs == r.heap[r.value.id].elems
             clusters_read == [i \in 1..Len(refs) |->
                                 [name |-> Get(r.heap[refs[i].id], S_name).s,
                                  uid |-> Get(r.heap[refs[i].id], S_uid).s]]
             result == get_cluster_uid(clusters_read, cluster_identifier)
             ambiguous == ~Truthy(cluster_identifier) /\ Len(refs) > 1
         IN  [heap |-> IF ambiguous
                       THEN alloc(r.heap, List([i \in 1..Len(refs) |-> Str(clusters_read[i].name)])).heap
                       ELSE r.heap,
              requests |-> <<clusters_request>>, listing |-> r.value, result |-> result]

(***************************************************************************)
(* SpecHeap: flatten_json, filter_json and the pipeline of get_workloads   *)
(* on responses decoded into the heap.                                     *)
(***************************************************************************)
HeapRecords(n) == FlattenRecords(n - 1) \cup FilterRecords
HeapFilters == SeqsUpTo(FilterPaths \ {<<>>}, MaxFilters)

\* the heap holding the decoded argument, and the reference to it
Decoded(fn, v) == [fn |-> fn, heap |-> Store(<<>>, v).heap, data |-> Store(<<>>, v).value]

InitHeap ==
    /\ \/ \E v \in HeapRecords(MaxKeys), p \in FlattenPrefixes :
              call = Decoded("flatten_json", v) @@ [parent |-> p]
       \/ \E v \in FilterData, f \in HeapFilters :
              call = Decoded("filter_json", v) @@ [filters |-> f]
       \/ \E vs \in SeqsUpTo(FilterRecords, MaxItems), f \in HeapFilters :
              call = Decoded("get_workloads", List(vs)) @@ [filters |-> f]
       \/ \E cl \in SeqsUpTo(ClusterRefs, MaxClusters), failing \in BOOLEAN, id \in ResolverIdentifiers :
              call = [fn |-> "get_cluster_uid", heap |-> Store(<<>>, Dict(<<>>)).heap,
                      world |-> [clusters |-> cl, failing |-> failing], cluster_identifier |-> id]
    /\ ret = NotCalled
    /\ Idle

CallFlattenHeap ==
    /\ call.fn = "flatten_json"
    /\ ret = NotCalled
    /\ ret' = flatten_json_heap(call.heap, call.data, call.parent, Dot)
    /\ UNCHANGED <<call, pipelineVars>>

CallFilterHeap ==
    /\ call.fn = "filter_json"
    /\ ret = NotCalled
    /\ ret' = filter_json_heap(call.heap, call.data, call.filters)
    /\ UNCHANGED <<call, pipelineVars>>

CallPipelineHeap ==
    /\ call.fn = "get_workloads"
    /\ ret = NotCalled
    /\ ret' = pipeline_heap(call.heap, call.data, call.filters)
    /\ UNCHANGED <<call, pipelineVars>>

CallResolverHeap ==
    /\ call.fn = "get_cluster_uid"
    /\ ret = NotCalled
    /\ ret' = get_cluster_uid_heap(call.heap, call.world, call.cluster_identifier)
    /\ UNCHANGED <<call, pipelineVars>>

NextHeap == CallFlattenHeap \/ CallFilterHeap \/ CallPipelineHeap \/ CallResolverHeap

SpecHeap == InitHeap /\ [][NextHeap]_vars

Returned == ret # NotCalled

\* every object the call was given is, after the call, what it was before it
GivenUnchanged ==
    /\ Len(ret.heap) >= Len(call.heap)
    /\ \A id \in 1..Len(call.heap) : ret.heap[id] = call.heap[id]

\* C21: flatten_json, filter_json and the pipeline of projection, flattening and
\* rendering leave every object they are given as it was (the retrieved Records still
\* equal what the control plane returned), what they return being new objects whose value
\* is the flattened or projected value of the argument.
C21_NoInPlaceMutation ==
    (Returned /\ call.fn # "get_cluster_uid") =>
        /\ GivenUnchanged
        /\ Load(ret.heap, call.data) = Load(call.heap, call.data)
        /\ call.fn = "flatten_json" =>
              /\ ret.value.id > Len(call.heap)
              /\ Load(ret.heap, ret.value) = flatten_json(Load(call.heap, call.data), call.parent, Dot)
        /\ call.fn = "filter_json" =>
              /\ ret.value.id > Len(call.heap)
              /\ Load(ret.heap, ret.value) = filter_json(Load(call.heap, call.data), call.filters)

\* C21 witness: a list of two nested Records went through projection, flattening and
\* rendering, new objects were made, and lines were printed
C21_Witness ==
    /\ Returned
    /\ call.fn = "get_workloads"
    /\ call.filters # <<>>
    /\ Len(call.heap[call.data.id].elems) = 2
    /\ \E id \in 1..Len(call.heap) :
          call.heap[id].py = "dict" /\ \E i \in 1..Len(call.heap[id].items) : call.heap[id].items[i][2].py = "ref"
    /\ Len(ret.heap) > Len(call.heap)
    /\ ret.value # <<>>

ResolverReturned == Returned /\ call.fn = "get_cluster_uid"

\* C23: get_cluster_uid issues exactly one request, the GET of the listing of clusters,
\* and no write request; the objects that existed before the call are unchanged, the
\* decoded listing it was returned is unmodified when it returns or raises, and when the
\* request itself failed nothing at all has changed.
C23_ResolverFrame ==
    ResolverReturned =>
        /\ ret.requests = <<[method |-> "GET", endpoint |-> S_clusters]>>
        /\ GivenUnchanged
        /\ ~call.world.failing =>
              Load(ret.heap, ret.listing)
                  = List([i \in 1..Len(call.world.clusters) |-> ClusterDict(call.world.clusters[i])])
        /\ call.world.failing => ret.result.raised /\ ret.heap = call.heap

\* C23 witness: the identifier matches no cluster of a listing of two, the resolver raised
\* after its one request and the listing is as it was returned
C23_Witness ==
    /\ ResolverReturned
    /\ ~call.world.failing
    /\ Len(call.world.clusters) = 2
    /\ call.cluster_identifier = Str(<<"z", "z">>)
    /\ ret.result.raised
    /\ Len(ret.requests) = 1
    /\ Len(Load(ret.heap, ret.listing).elems) = 2

(***************************************************************************)
(* topology --mmai: fetch_mmai_topology and print_topology_data.           *)
(***************************************************************************)
S_priorityClass == <<"p", "r", "i", "o", "r", "i", "t", "y", "C", "l", "a", "s", "s">>
S_reservations == <<"r", "e", "s", "e", "r", "v", "a", "t", "i", "o", "n", "s">>
S_usedQuotas == <<"u", "s", "e", "d", "Q", "u", "o", "t", "a", "s">>
S_numberOfAdmittedWorkloads == <<"n", "u", "m", "b", "e", "r", "O", "f", "A", "d", "m", "i", "t", "t", "e", "d", "W", "o", "r", "k", "l", "o", "a", "d", "s">>
S_numberOfPendingWorkloads == <<"n", "u", "m", "b", "e", "r", "O", "f", "P", "e", "n", "d", "i", "n", "g", "W", "o", "r", "k", "l", "o", "a", "d", "s">>

\* a project as the control plane returns it, with the fields the topology reads
ProjectRecord(uid, i) ==
    Dict(<< <<S_name, Str(uid \o <<"-">> \o str_int(i))>>,
            <<S_priorityClass, X>>, <<S_reservations, Dict(<<>>)>>, <<S_usedQuotas, Dict(<<>>)>>,
            <<S_numberOfAdmittedWorkloads, Y>>, <<S_numberOfPendingWorkloads, Y>> >>)

\* the collections of cluster i of the control plane: node groups, departments, projects
TopologyCollection(i, kind) ==
    LET c == api.clusters[i]
    IN  CASE kind = "nodeGroups" -> [j \in 1..c.ng |-> Resource(c.uid, j - 1)]
          [] kind = "departments" -> [j \in 1..c.dp |-> Resource(c.uid, j - 1)]
          [] kind = "projects" ->
                [j \in 1..c.pj |-> IF api.fault = [cluster |-> i, kind |-> "keys"]
                                   THEN Resource(c.uid, j - 1) ELSE ProjectRecord(c.uid, j - 1)]

\* f"clusters/{cluster_uid}/nodeGroups", .../departments, .../projects
topology_endpoint(cluster_uid, kind) ==
    endpoint(cluster_uid, CASE kind = "nodeGroups" -> "nodegroup list"
                            [] kind = "departments" -> "department list"
                            [] kind = "projects" -> "project list")

\* list_nodegroups_by_cluster_uid and its like: the collection, or None with the error
\* logged when the request failed
by_cluster_uid(i, kind) ==
    IF api.fault = [cluster |-> i, kind |-> kind]
    THEN [value |-> None,
          log |-> <<[level |-> "error", msg |-> "GET request failed: {e}", e |-> kind],
                    [level |-> "error", msg |-> "Failed to fetch for cluster {cluster_uid}: {e}", e |-> kind]>>]
    ELSE [value |-> List(TopologyCollection(i, kind)), log |-> <<>>]

\* the error record fetch_mmai_topology returns
ErrorRecord(error) == [error |-> error, suggestion |-> "suggestion"]

\* the reference of cluster i in the listing; the cluster the world marks as lacking has
\* no 'uid'
TopologyRef(i) ==
    IF api.lacking = i THEN [name |-> api.clusters[i].name]
    ELSE [name |-> api.clusters[i].name, uid |-> api.clusters[i].uid]

\* project['priorityClass'] and the other fields read with [...]: a KeyError when absent
project_fields_present(projects) ==
    \A j \in 1..Len(projects) :
        \A key \in {S_name, S_priorityClass, S_reservations, S_usedQuotas,
                    S_numberOfAdmittedWorkloads, S_numberOfPendingWorkloads} : HasKey(projects[j], key)

topology_append_replacing(so_far, cluster_data) == <<cluster_data>>

\* topology_data['Clusters'].append(cluster_data)
topology_append(so_far, cluster_data) == Append(so_far, cluster_data)

\* fetch_mmai_topology returns: the result is kept in ret and print_topology_data is next
TopologyReturns(result, logged) ==
    /\ ret' = Return(result)
    /\ log' = log \o logged
    /\ pc' = "fetched"
    /\ UNCHANGED <<clusters, k, acc>>

\* lines 178-190: clusters = client.get("clusters")
TopologyClusters ==
    /\ pc = "start"
    /\ args.cmd = "topology"
    /\ requests' = Append(requests, S_clusters)
    /\ IF api.fault.kind = "clusters"
       THEN TopologyReturns(ErrorRecord("Unexpected error occurred."),
                            <<[level |-> "error", msg |-> "GET request failed: {e}", e |-> "clusters"],
                              [level |-> "error", msg |-> "Unexpected error occurred: {e}", e |-> "clusters"]>>)
       ELSE IF api.clusters = <<>>
       THEN TopologyReturns(ErrorRecord("No clusters found."),
                            <<[level |-> "error", msg |-> "No clusters found.", e |-> ""]>>)
       ELSE /\ clusters' = [i \in 1..Len(api.clusters) |-> TopologyRef(i)]
            /\ k' = 1
            /\ acc' = <<>>
            /\ pc' = "topology loop"
            /\ UNCHANGED <<ret, log>>
    /\ UNCHANGED <<call, api, args, origin, out, status>>

\* lines 192-276: the body of `for cluster in clusters:` for one cluster
TopologyCluster ==
    /\ pc = "topology loop"
    /\ k <= Len(clusters)
    /\ LET cluster == clusters[k]
           nodegroups == by_cluster_uid(k, "nodeGroups")
           departments == by_cluster_uid(k, "departments")
           projects == by_cluster_uid(k, "projects")
           ngPath == topology_endpoint(cluster.uid, "nodeGroups")
           dpPath == topology_endpoint(cluster.uid, "departments")
           pjPath == topology_endpoint(cluster.uid, "projects")
           failed(what) == <<[level |-> "error", msg |-> "Failed to fetch for cluster {cluster_uid}.", e |-> what]>>
           cluster_data ==
               [Cluster |-> cluster.name,
                NodeGroups |-> [j \in 1..Len(nodegroups.value.elems) |->
                                  [NodeGroup |-> Get(nodegroups.value.elems[j], S_name).s, Nodes |-> <<>>]],
                Departments |-> [j \in 1..Len(departments.value.elems) |->
                                   [Department |-> Get(departments.value.elems[j], S_name).s,
                                    Projects |-> [p \in 1..Len(projects.value.elems) |->
                                                    [Project |-> Get(projects.value.elems[p], S_name).s]]]],
                Projects |-> <<>>]
       IN  IF ~({"uid", "name"} \subseteq DOMAIN cluster)
           THEN /\ log' = Append(log, [level |-> "error", msg |-> "Cluster data missing 'uid' or 'name': {cluster}", e |-> ""])
                /\ k' = k + 1
                /\ UNCHANGED <<ret, pc, clusters, acc, requests>>
           ELSE IF ~Truthy(nodegroups.value)
           THEN /\ requests' = Append(requests, ngPath)
                /\ TopologyReturns(ErrorRecord("Failed to fetch node groups for cluster {cluster_uid}."),
                                   nodegroups.log \o failed("nodeGroups"))
           ELSE IF ~Truthy(departments.value)
           THEN /\ requests' = requests \o <<ngPath, dpPath>>
                /\ TopologyReturns(ErrorRecord("Failed to fetch departments for cluster {cluster_uid}."),
                                   departments.log \o failed("departments"))
           ELSE IF ~Truthy(projects.value)
           THEN /\ requests' = requests \o <<ngPath, dpPath, pjPath>>
                /\ TopologyReturns(ErrorRecord("Failed to fetch projects for cluster {cluster_uid}."),
                                   projects.log \o failed("projects"))
           ELSE IF ~project_fields_present(projects.value.elems)
           THEN /\ requests' = requests \o <<ngPath, dpPath, pjPath>>
                /\ TopologyReturns(ErrorRecord("Unexpected error occurred."),
                                   <<[level |-> "error", msg |-> "Unexpected error occurred: {e}", e |-> "KeyError"]>>)
           ELSE /\ requests' = requests \o <<ngPath, dpPath>>
                                  \o [d \in 1..Len(departments.value.elems) |-> pjPath]
                /\ acc' = topology_append(acc, cluster_data)
                /\ k' = k + 1
                /\ UNCHANGED <<ret, pc, clusters, log>>
    /\ UNCHANGED <<call, api, args, origin, out, status>>

\* line 278: return topology_data
TopologyEnd ==
    /\ pc = "topology loop"
    /\ k > Len(clusters)
    /\ TopologyReturns([Clusters |-> acc], <<>>)
    /\ UNCHANGED <<call, api, args, origin, requests, out, status>>

\* one printed line of the tree: what it shows and of which name
TreeLine(what, name) == [line |-> what, name |-> name]

\* the lines print_topology_data prints for one cluster of topology_data['Clusters']
cluster_lines(cluster) ==
    <<TreeLine("Clusters:", <<>>), TreeLine("Cluster: ", cluster.Cluster), TreeLine("NodeGroups:", <<>>)>>
    \o concat([j \in 1..Len(cluster.NodeGroups) |->
                 <<TreeLine("NodeGroup: ", cluster.NodeGroups[j].NodeGroup), TreeLine("Nodes:", <<>>)>>])
    \o <<TreeLine("Departments:", <<>>)>>
    \o concat([j \in 1..Len(cluster.Departments) |->
                 <<TreeLine("Department: ", cluster.Departments[j].Department), TreeLine("Projects:", <<>>)>>
                 \o [p \in 1..Len(cluster.Departments[j].Projects) |->
                       TreeLine("Project: ", cluster.Departments[j].Projects[p].Project)]])

\* topology_view and mmai_topology: the banner, then print_topology_data(topology_data)
TopologyPrint ==
    /\ pc = "fetched"
    /\ LET topology_data == ret.value
           banner == <<TreeLine("Displaying MMAI hardware/software topology...", <<>>),
                       TreeLine("MMAI Topology:", <<>>)>>
       IN  IF "Clusters" \notin DOMAIN topology_data
           THEN /\ out' = [printed |-> <<PrintLines(banner)>>, returned |-> None]
                /\ log' = Append(log, [level |-> "error",
                                       msg |-> "Invalid topology data: 'Clusters' key missing or not a list", e |-> ""])
           ELSE /\ out' = [printed |-> <<PrintLines(banner \o concat([i \in 1..Len(topology_data.Clusters) |->
                                                     cluster_lines(topology_data.Clusters[i])]))>>,
                           returned |-> None]
                /\ UNCHANGED log
    /\ pc' = "done"
    /\ UNCHANGED <<call, ret, api, args, clusters, k, acc, origin, requests, status>>

(***************************************************************************)
(* SpecTopology: one invocation of topology --mmai.                        *)
(***************************************************************************)
TopologyFaults(n) ==
    {[cluster |-> 0, kind |-> "none"], [cluster |-> 0, kind |-> "clusters"]}
        \cup [cluster : 1..n, kind : {"nodeGroups", "departments", "projects", "keys"}]

\* a control plane of n clusters: the sizes of their collections, the cluster listed
\* without 'uid' (0: none) and the fault
TopologyWorld(n, ngs, dps, pjs, l, f) ==
    [clusters |-> [i \in 1..n |-> [name |-> <<"c">> \o str_int(i), uid |-> Uid(i),
                                    ng |-> ngs[i], dp |-> dps[i], pj |-> pjs[i]]],
     lacking |-> l, fault |-> f]

InitTopology ==
    /\ call = [fn |-> "none"]
    /\ ret = NotCalled
    /\ \E n \in 0..MaxClusters :
          \E ngs \in [1..n -> 0..1], dps \in [1..n -> 0..MaxItems], pjs \in [1..n -> 0..1],
             l \in 0..n, f \in TopologyFaults(n) :
              api = TopologyWorld(n, ngs, dps, pjs, l, f)
    /\ args = [cmd |-> "topology", mmai |-> TRUE]
    /\ pc = "start"
    /\ clusters = <<>>
    /\ k = 0
    /\ acc = <<>>
    /\ origin = <<>>
    /\ requests = <<>>
    /\ out = NoOutput
    /\ log = <<>>
    /\ status = Running

NextTopology == TopologyClusters \/ TopologyCluster \/ TopologyEnd \/ TopologyPrint

SpecTopology == InitTopology /\ [][NextTopology]_vars

(***************************************************************************)
(* The topology claims.                                                    *)
(***************************************************************************)
\* fetch_mmai_topology has returned
TopologyFetched == args.cmd = "topology" /\ pc \in {"fetched", "done"}

IsErrorRecord(t) == "error" \in DOMAIN t /\ "Clusters" \notin DOMAIN t
IsTopology(t) == "Clusters" \in DOMAIN t /\ "error" \notin DOMAIN t

\* the listed clusters that have both 'uid' and 'name', in listing order
CompleteClusters == SortedSeq({i \in 1..Len(api.clusters) : api.lacking # i})

\* a collection of cluster i failed, is empty, or (the projects) cannot be read
CollectionBad(i) ==
    \/ api.fault.cluster = i
    \/ api.clusters[i].ng = 0 \/ api.clusters[i].dp = 0 \/ api.clusters[i].pj = 0

\* the tree lines that show a cluster
ClusterLinesPrinted ==
    {i \in 1..Len(out.printed[1].lines) : out.printed[1].lines[i].line \in {"Clusters:", "Cluster: "}}

\* C27: fetch_mmai_topology returns an error record (an `error` key, no `Clusters` key) or
\* a topology whose `Clusters` has exactly one entry, in listing order, for every listed
\* cluster that has both uid and name; it is the error record exactly when the listing
\* fails or is empty or a node-group, department or project collection of such a cluster
\* failed or is empty, whatever was processed before; print_topology_data then prints no
\* cluster.
C27_TopologyAllOrNothing ==
    TopologyFetched =>
        LET t == ret.value
            bad == \/ api.fault.kind = "clusters"
                   \/ api.clusters = <<>>
                   \/ \E j \in 1..Len(CompleteClusters) : CollectionBad(CompleteClusters[j])
        IN  /\ IsErrorRecord(t) \/ IsTopology(t)
            /\ IsErrorRecord(t) <=> bad
            /\ IsTopology(t) =>
                  /\ Len(t.Clusters) = Len(CompleteClusters)
                  /\ \A j \in 1..Len(t.Clusters) :
                        LET c == api.clusters[CompleteClusters[j]]
                        IN  /\ t.Clusters[j].Cluster = c.name
                            /\ Len(t.Clusters[j].NodeGroups) = c.ng
                            /\ Len(t.Clusters[j].Departments) = c.dp
            /\ (pc = "done" /\ IsErrorRecord(t)) => ClusterLinesPrinted = {}
            /\ (pc = "done" /\ IsTopology(t)) =>
                  Cardinality({i \in ClusterLinesPrinted : out.printed[1].lines[i].line = "Cluster: "})
                      = Len(CompleteClusters)

\* C27 witness: the first cluster was processed, a collection of the second failed, the
\* result is the error record and no cluster was printed
C27_Witness ==
    /\ TopologyFetched
    /\ pc = "done"
    /\ Len(api.clusters) = 2
    /\ api.lacking = 0
    /\ api.fault = [cluster |-> 2, kind |-> "departments"]
    /\ Len(acc) = 1
    /\ IsErrorRecord(ret.value)
    /\ Len(out.printed[1].lines) = 2

\* the cluster a per-cluster request is scoped under (0 for the listing of clusters)
RequestCluster(path) ==
    IF path = S_clusters THEN 0
    ELSE CHOOSE i \in 1..Len(api.clusters) :
            StartsWith(path, S_clusters \o <<"/">> \o api.clusters[i].uid \o <<"/">>)

\* C22: the invocation issues a bounded sequence of requests, one for the listing of
\* clusters and one per resource collection of each cluster; the per-cluster requests are
\* issued cluster after cluster in cluster-list order, and no endpoint is fetched twice.
C22_BoundedSequentialCalls ==
    /\ Len(requests) <= 1 + 3 * Len(api.clusters)
    /\ \A i, j \in 1..Len(requests) : i < j => RequestCluster(requests[i]) <= RequestCluster(requests[j])
    /\ \A i, j \in 1..Len(requests) : i # j => requests[i] # requests[j]

(***************************************************************************)
(* The request paths of one invocation.                                    *)
(***************************************************************************)
ListedUids == {api.clusters[i].uid : i \in 1..Len(api.clusters)}

\* the path is the listing of clusters or one cluster itself: a cluster resource
ClusterPath(path) ==
    \/ path = S_clusters
    \/ \E u \in ListedUids : path = S_clusters \o <<"/">> \o u
    \/ args.cmd = "cluster delete" /\ path = S_clusters \o <<"/">> \o args.uid

\* clusters/{uid}/<collection>: scoped under exactly one uid, of a listed cluster
ScopedUnderListedUid(path) ==
    \E u \in ListedUids : path = S_clusters \o <<"/">> \o u \o <<"/">> \o resource(args.cmd)

GlobalCollections ==
    { <<"d", "e", "p", "a", "r", "t", "m", "e", "n", "t", "s">>,
      <<"n", "o", "d", "e", "g", "r", "o", "u", "p", "s">>,
      <<"p", "r", "o", "j", "e", "c", "t", "s">> }

\* <collection>/{identifier}: the resource addressed globally by identifier
GlobalPath(path, identifier) ==
    \E collection \in GlobalCollections : path = collection \o <<"/">> \o identifier

client_headers(token) ==
    IF Truthy(token) THEN {<<"Authorization", <<"B", "e", "a", "r", "e", "r", " ">> \o token.s>>} ELSE {}

\* a request sent by APIClient: base_url/endpoint with the client's headers
client_request(method, endpoint_, data) ==
    [method |-> method, address |-> endpoint_, headers |-> client_headers(args.token),
     data |-> data, via |-> "APIClient"]

direct_put_with_client_headers(address, data) == client_request("PUT", address, data)

\* requests.put(api_url, data=update_data_json, headers={'Content-Type': 'application/json'})
direct_put(address, data) ==
    [method |-> "PUT", address |-> address,
     headers |-> {<<"Content-Type", <<"a", "p", "p", "l", "i", "c", "a", "t", "i", "o", "n", "/", "j", "s", "o", "n">> >>},
     data |-> data, via |-> "requests"]

parse_properties_skipping(properties, update_data) ==
    Return(Dict(dict([i \in 1..Len(properties) |->
                        <<split(properties[i], <<"=">>)[1],
                          Str(split(properties[i], <<"=">>)[Len(split(properties[i], <<"=">>))])>>])))

\* for prop in args.properties: key, value = prop.split('='); update_data[key] = value
\* the unpacking raises ValueError unless the split gives exactly two parts
RECURSIVE parse_properties(_, _)
parse_properties(properties, update_data) ==
    IF properties = <<>> THEN Return(Dict(update_data))
    ELSE LET parts == split(properties[1], <<"=">>)
         IN  IF Len(parts) # 2 THEN Raise("ValueError", properties[1])
             ELSE parse_properties(Tail(properties), dict_set(update_data, parts[1], Str(parts[2])))

\* set_cluster_property's `except Exception as e`: the error is logged and printed
SetCaught(e) ==
    /\ pc' = "done"
    /\ log' = Append(log, [level |-> "error", msg |-> "Failed to update cluster: {e}", e |-> e.exc])
    /\ out' = [printed |-> <<ErrorString(e)>>, returned |-> None]
    /\ UNCHANGED <<clusters, k>>

\* line 131: cluster_uid = get_cluster_uid(client, args.cluster)
SetResolve ==
    /\ pc = "start"
    /\ args.cmd = "cluster set"
    /\ requests' = Append(requests, client_request("GET", S_clusters, None))
    /\ LET u == IF api.failing = S_clusters THEN Raise("GET request failed: {e}", S_clusters)
                ELSE get_cluster_uid(api.clusters, args.cluster)
       IN  IF u.raised THEN SetCaught(u)
           ELSE /\ clusters' = <<[uid |-> u.value]>>
                /\ k' = 1
                /\ pc' = "resolved"
                /\ UNCHANGED <<out, log>>
    /\ UNCHANGED <<call, ret, api, args, acc, origin, status>>

\* lines 133-161: the API URL, the properties, the PUT and its answer
SetUpdate ==
    /\ pc = "resolved"
    /\ args.cmd = "cluster set"
    /\ LET update_data == parse_properties(args.properties, <<>>)
           api_url == args.api_url \o <<"/">> \o S_clusters \o <<"/">> \o clusters[1].uid
       IN  IF args.api_url = <<>>
           THEN SetCaught(Raise("API URL is not provided. Use --api-url to specify the API endpoint.", <<>>))
                /\ UNCHANGED requests
           ELSE IF update_data.raised
           THEN SetCaught(update_data) /\ UNCHANGED requests
           ELSE /\ requests' = Append(requests, direct_put(api_url, update_data.value))
                /\ IF api.failing = <<"P", "U", "T">>
                   THEN SetCaught(Raise("ConnectionError", api_url))
                   ELSE /\ pc' = "done"
                        /\ UNCHANGED <<clusters, k>>
                        /\ IF api.status = 200
                           THEN /\ log' = Append(log, [level |-> "info", msg |-> "Cluster '{args.cluster}' updated successfully.", e |-> ""])
                                /\ out' = [printed |-> <<PrintMessage("Cluster updated: {response.json()}")>>,
                                           returned |-> None]
                           ELSE /\ log' = Append(log, [level |-> "error", msg |-> "Failed to update cluster: {response.text}", e |-> ""])
                                /\ out' = [printed |-> <<PrintMessage("Error: {response.text}")>>, returned |-> None]
    /\ UNCHANGED <<call, ret, api, args, acc, origin, status>>

\* APIClient.put: return response.json(), the body the control plane answered with
response_json(method, address) == [response |-> "json", method |-> method, address |-> address]

update_data_always(new_name, description) ==
    <<<<S_name, new_name>>, <<<<"d", "e", "s", "c", "r", "i", "p", "t", "i", "o", "n">>, description>>>>

\* lines 208-212: data = {}; the name and the description when they are truthy
update_data_of(new_name, description) ==
    (IF Truthy(new_name) THEN <<<<S_name, new_name>>>> ELSE <<>>)
    \o (IF Truthy(description)
        THEN <<<<<<"d", "e", "s", "c", "r", "i", "p", "t", "i", "o", "n">>, description>>>> ELSE <<>>)

\* update_project under main's try: nothing is sent without data; otherwise one
\* client.put, whose result is returned, and whose exception leaves the handler for main
\* to log before exit(1)
UpdateProject ==
    /\ pc = "start"
    /\ args.cmd = "project update"
    /\ LET data == update_data_of(args.new_name, args.description)
           path == <<"p", "r", "o", "j", "e", "c", "t", "s", "/">> \o args.name
       IN  IF data = <<>>
           THEN /\ log' = Append(log, [level |-> "error", msg |-> "No updates provided.", e |-> ""])
                /\ out' = NoOutput
                /\ pc' = "done"
                /\ UNCHANGED <<requests, status>>
           ELSE /\ requests' = Append(requests, client_request("PUT", path, Dict(data)))
                /\ IF api.failing = <<"P", "U", "T">> \/ raises_for_status(api.status)
                   THEN /\ log' = log \o <<[level |-> "error", msg |-> "PUT request failed: {e}", e |-> path],
                                           [level |-> "error", msg |-> "Error: {e}", e |-> path]>>
                        /\ out' = NoOutput
                        /\ pc' = "exit"
                        /\ status' = Exited(1)
                   ELSE /\ log' = Append(log, [level |-> "info", msg |-> "Project '{args.name}' updated successfully", e |-> ""])
                        /\ out' = [printed |-> <<>>, returned |-> response_json("PUT", path)]
                        /\ pc' = "done"
                        /\ UNCHANGED status
    /\ UNCHANGED <<call, ret, api, args, clusters, k, acc, origin>>

(***************************************************************************)
(* SpecWrite: one invocation of cluster set or project update.             *)
(***************************************************************************)
Tokens == {None, Str(<<"t">>)}

\* properties as typed: well formed, without "=", with two "="
PropertyTexts == { <<"k", "=", "v">>, <<"j", "=", "w">>, <<"k">>, <<"k", "=", "v", "=", "w">> }

WriteWorlds ==
    UNION {{[clusters |-> [i \in 1..n |-> [name |-> names[i], uid |-> Uid(i)]], failing |-> f, status |-> s]
            : names \in [1..n -> ClusterNames], f \in {<<>>, S_clusters, <<"P", "U", "T">>}, s \in {200, 404}}
           : n \in 0..MaxClusters}

InitWrite ==
    /\ call = [fn |-> "none"]
    /\ ret = NotCalled
    /\ api \in WriteWorlds
    /\ \/ \E c \in {Str(<<"a">>), Str(<<"z", "z">>)}, u \in {<<>>, <<"h">>}, t \in Tokens,
             n \in 1..MaxKeys : \E ps \in [1..n -> PropertyTexts] :
              args = [cmd |-> "cluster set", cluster |-> c, api_url |-> u, token |-> t, properties |-> ps]
       \/ \E nn \in {None, Str(<<>>), Str(<<"n">>)}, d \in {None, Str(<<>>), Str(<<"d">>)}, t \in Tokens :
              args = [cmd |-> "project update", name |-> <<"p">>, new_name |-> nn, description |-> d,
                      api_url |-> <<"h">>, token |-> t]
    /\ pc = "start"
    /\ clusters = <<>>
    /\ k = 0
    /\ acc = <<>>
    /\ origin = <<>>
    /\ requests = <<>>
    /\ out = NoOutput
    /\ log = <<>>
    /\ status = Running

NextWrite == SetResolve \/ SetUpdate \/ UpdateProject \/ MainPrint

SpecWrite == InitWrite /\ [][NextWrite]_vars

(***************************************************************************)
(* Claims about the commands that write.                                   *)
(***************************************************************************)
Malformed(prop) == Len(split(prop, <<"=">>)) # 2

AnyMalformed == \E i \in 1..Len(args.properties) : Malformed(args.properties[i])

SetEnded == args.cmd = "cluster set" /\ pc \in {"done", "exit"}

UpdateSent == \E i \in 1..Len(requests) : requests[i].method = "PUT"

\* C25: cluster set with a property that does not split on "=" into exactly two parts
\* never sends the update request, whatever the properties before it; the command ends
\* with a logged and printed error, and whenever the handler came to read the properties
\* (the cluster resolved, the API URL given) that error is the ValueError of the split
C25_MalformedInput ==
    (args.cmd = "cluster set" /\ AnyMalformed) =>
        /\ ~UpdateSent
        /\ SetEnded =>
              /\ out.printed[1].print = "error"
              /\ log[Len(log)].level = "error"
              /\ (Len(clusters) = 1 /\ args.api_url # <<>>) => out.printed[1].e = "ValueError"

\* a well-formed first property, a malformed second one, a resolved cluster: the
\* ValueError is printed and only the GET of the resolution was sent
C25_Witness ==
    /\ SetEnded
    /\ Len(args.properties) = 2
    /\ ~Malformed(args.properties[1])
    /\ Malformed(args.properties[2])
    /\ Len(clusters) = 1
    /\ out.printed[1].e = "ValueError"
    /\ Len(requests) = 1

\* C26: every request of every command is sent by the HTTP client, with the bearer token
\* in its Authorization header when a token is configured and with no Authorization
\* header otherwise
C26_BearerOnEveryRequest ==
    \A i \in 1..Len(requests) :
        /\ requests[i].via = "APIClient"
        /\ IF args.token = None
           THEN \A h \in requests[i].headers : h[1] # "Authorization"
           ELSE <<"Authorization", <<"B", "e", "a", "r", "e", "r", " ">> \o args.token.s>> \in requests[i].headers

UpdateEnded == args.cmd = "project update" /\ pc \in {"done", "exit"}

\* the PUT of project update with the fields picked by the predicate supplied(_)
UpdateOf(supplied(_)) ==
    LET S_description == <<"d", "e", "s", "c", "r", "i", "p", "t", "i", "o", "n">>
        body == (IF supplied(args.new_name) THEN <<<<S_name, args.new_name>>>> ELSE <<>>)
                \o (IF supplied(args.description) THEN <<<<S_description, args.description>>>> ELSE <<>>)
    IN  IF body = <<>>
        THEN requests = <<>> /\ out.returned = None
        ELSE /\ Len(requests) = 1
             /\ requests[1].method = "PUT"
             /\ requests[1].address = <<"p", "r", "o", "j", "e", "c", "t", "s", "/">> \o args.name
             /\ requests[1].data = Dict(body)

IsGiven(v) == v # None

\* C30 as stated: without --new-name and --description project update sends nothing and
\* returns nothing; with at least one of them given it sends exactly one PUT to
\* projects/{name} whose body holds the given fields and no other
C30_UpdateWhenGiven == UpdateEnded => UpdateOf(IsGiven)

\* C30: an empty string counts as not given. Without a non-empty new name and a
\* non-empty description project update sends nothing and returns nothing; otherwise it
\* sends exactly one PUT to projects/{name} whose body holds the non-empty fields only
C30_UpdateWhenNonEmpty == UpdateEnded => UpdateOf(Truthy)

\* a new name alone: one PUT whose body is the name
C30_Witness ==
    /\ UpdateEnded
    /\ args.new_name = Str(<<"n">>)
    /\ args.description = None
    /\ Len(requests) = 1
    /\ requests[1].data = Dict(<<<<S_name, Str(<<"n">>)>>>>)

\* nothing to update: no request, no result
C30_WitnessEmpty ==
    /\ UpdateEnded
    /\ args.new_name = None
    /\ args.description = None
    /\ requests = <<>>
    /\ out.returned = None

(***************************************************************************)
(* Claims about what the listing commands show.                            *)
(***************************************************************************)
\* the cluster workload list resolved
ResolvedCluster == api.clusters[CHOOSE i \in 1..Len(api.clusters) : api.clusters[i].uid = clusters[1].uid]

\* what workload list prints for the resolved cluster when no filter is given
UnfilteredListing ==
    render_workload_names(args.output, ResolvedCluster.name, names_of(Collection(ResolvedCluster)).value)

\* C28: workload list with a field filter, whatever the filter and the output mode, lists
\* the names it lists without a filter, in the same order
C28_FilterKeepsListing ==
    (Done /\ args.cmd = "workload list" /\ Truthy(args.filter) /\ Len(clusters) = 1 /\ ~Failed) =>
        /\ out.printed # <<>>
        /\ out.printed[1] = UnfilteredListing

\* the clusters whose collection is not empty, in cluster-list order
NonEmptyClusters == SelectSeq(api.clusters, LAMBDA c : c.n > 0)

\* one group per such cluster: its name and the names of its resources in fetch order
ExpectedGroups ==
    [i \in 1..Len(NonEmptyClusters) |->
        <<NonEmptyClusters[i].name,
          [j \in 1..NonEmptyClusters[i].n |-> Get(Collection(NonEmptyClusters[i])[j], S_name).s]>>]

\* C29: nodegroup list, node list and project list without a selector show every cluster
\* with a non-empty collection as a group of its own, holding that cluster's resource
\* names in fetch order, the groups in cluster-list order, also when two clusters have the
\* same name
C29_OneGroupPerCluster ==
    (Finished /\ args.cmd \in NameCmds /\ AllClusters /\ ~Failed) =>
        /\ acc = ExpectedGroups
        /\ ExpectedGroups # <<>> => out = render_names(args.cmd, args.output, ExpectedGroups)

====
